---- MODULE Spec2Model ----
(***************************************************************************)
(* Upload side of the Internxt rclone adapter (package buckets):           *)
(*   - UploadFileStreamAuto, UploadFileStream, UploadFileStreamMultipart   *)
(*     (src/buckets/upload.go)                                             *)
(*   - multipartUploadState and its methods (src/buckets/multipart.go)     *)
(*   - CreateMetaFile (src/buckets/meta.go)                                *)
(*                                                                         *)
(* Byte strings are abstracted by their length; rendered error strings are *)
(* sequences of tokens in which every decimal digit is a token of its own, *)
(* so that the substring search of isRetryableError is a real search.      *)
(***************************************************************************)
EXTENDS Integers, Sequences, FiniteSets, TLC

VARIABLES
    pc,         \* position of the goroutine that called the upload function
    plainSize,  \* the plainSize argument (replaced by the buffered length when < 0)
    inRemaining,\* bytes the input reader can still deliver
    calls,      \* the protocol calls issued so far, in order
    ret,        \* what the upload function returned
    stream,     \* locals of UploadFileStream
    mp,         \* the multipartUploadState and the locals of executeMultipartUpload
    wk,         \* position of each chunk goroutine of uploadConcurrently
    ch,         \* semaphore, results channel and collector locals of uploadConcurrently
    chunk,      \* one uploadChunkWithRetry call (its locals and position)
    meta,       \* one CreateMetaFile call (its locals and position)
    ctxDone,    \* TRUE once the caller's context has been cancelled
    gate,       \* package consistency: clock, recentFolders, timers, one AwaitFolder call
    dl,         \* one download call (DownloadFile or DownloadFileStream)
    thumb,      \* background thumbnail uploads and one WaitForPendingThumbnails call
    fin,        \* one FinishUpload / FinishMultipartUpload call
    herr        \* one HTTPError and one call of its RetryAfter method

callVars == <<pc, plainSize, inRemaining, calls, ret>>
mpVars   == <<mp, wk, ch>>
metaVars == <<meta, ctxDone>>
restVars == <<gate, dl, thumb, fin, herr>>
uploadVars == <<pc, plainSize, inRemaining, calls, ret, stream, mp, wk, ch, chunk, meta, ctxDone>>
vars == <<pc, plainSize, inRemaining, calls, ret, stream, mp, wk, ch, chunk, meta, ctxDone,
          gate, dl, thumb, fin, herr>>

----------------------------------------------------------------------------
(* Strings                                                                 *)

DigitChars == <<"0", "1", "2", "3", "4", "5", "6", "7", "8", "9">>

\* fmt's %d for a non-negative integer
RECURSIVE Itoa(_)
Itoa(n) == IF n < 10 THEN <<DigitChars[n + 1]>>
           ELSE Itoa(n \div 10) \o <<DigitChars[(n % 10) + 1]>>

containsMiddle(s, substr) ==
    \E i \in 0..(Len(s) - Len(substr)) : SubSeq(s, i + 1, i + Len(substr)) = substr

contains(s, substr) ==
    /\ Len(s) >= Len(substr)
    /\ \/ s = substr
       \/ /\ Len(s) > Len(substr)
          /\ \/ SubSeq(s, 1, Len(substr)) = substr
             \/ SubSeq(s, Len(s) - Len(substr) + 1, Len(s)) = substr
             \/ containsMiddle(s, substr)

----------------------------------------------------------------------------
(* HTTP responses of the presigned chunk URL                               *)

NoErr == <<>>

BodyPlain == <<"temporary failure">>
Body404   == <<"key ", "4", "0", "4", " gone">>

\* what a PUT can come back with: status 0 stands for a transport failure
PutStatuses == {0, 200, 400, 401, 403, 404, 500, 503}
ETagHeaders == {<<>>, <<"\"", "etag", "\"">>, <<"etag">>}

PutResponses ==
    [status : {200}, body : {<<>>}, etag : ETagHeaders]
    \cup [status : PutStatuses \ {200}, body : {BodyPlain, Body404}, etag : {<<>>}]

\* Transfer's failure for a non-2xx answer: "transfer failed: status %d, %s"
TransferFailed(status, body) ==
    <<"transfer failed: status ">> \o Itoa(status) \o <<", ">> \o body

\* the ETag header with surrounding double quotes stripped
StripQuotes(h) ==
    IF Len(h) >= 2 /\ Head(h) = "\"" /\ h[Len(h)] = "\""
    THEN SubSeq(h, 2, Len(h) - 1)
    ELSE h

\* Transfer: one PUT; on 2xx the ETag header, otherwise an error
Transfer(resp) ==
    IF resp.status = 0
    THEN [err |-> <<"Put: connection timeout">>, etag |-> <<>>]
    ELSE IF resp.status < 200 \/ resp.status >= 300
    THEN [err |-> TransferFailed(resp.status, resp.body), etag |-> <<>>]
    ELSE [err |-> NoErr, etag |-> StripQuotes(resp.etag)]

----------------------------------------------------------------------------
(* uploadChunkWithRetry                                                    *)

maxRetries == 3
baseDelay == 1

\* variant: only "404" marks an error as final
isRetryableExcept404(err) ==
    IF err = NoErr THEN FALSE ELSE ~contains(err, <<"4", "0", "4">>)

isRetryableError(err) ==
    IF err = NoErr THEN FALSE
    ELSE IF \/ contains(err, <<"4", "0", "0">>)
            \/ contains(err, <<"4", "0", "1">>)
            \/ contains(err, <<"4", "0", "3">>)
            \/ contains(err, <<"4", "0", "4">>)
         THEN FALSE
         ELSE TRUE

\* "chunk %d upload failed after %d retries: %w"
ChunkFailed(partIndex, lastErr) ==
    <<"chunk ">> \o Itoa(partIndex + 1) \o <<" upload failed after ">>
        \o Itoa(maxRetries) \o <<" retries: ">> \o lastErr

RECURSIVE Pow2(_)
Pow2(n) == IF n = 0 THEN 1 ELSE 2 * Pow2(n - 1)

\* the locals of a call that has not started yet
\* dataLen is len(encryptedData); puts are the request bodies of the attempts, each
\* the stretch of the chunk its reader delivers
ChunkIdle == [pc |-> "idle", partIndex |-> 0, dataLen |-> 0, puts |-> <<>>,
              attempt |-> 0, served |-> <<>>,
              delays |-> <<>>, lastErr |-> NoErr, etag |-> <<>>, err |-> NoErr]

ChunkCall(partIndex) == [ChunkIdle EXCEPT !.pc = "transfer", !.partIndex = partIndex]

\* the backoff of the loop head: time.Sleep(baseDelay * 2^(attempt-1)) when attempt > 0
ChunkBackoff(c) ==
    [c EXCEPT !.pc = "transfer",
              !.delays = Append(@, baseDelay * Pow2(c.attempt - 1))]

\* variant: one reader for all attempts, drained by the first
AttemptReaderReused(c) ==
    IF c.puts = <<>> THEN [off |-> 0, len |-> c.dataLen]
    ELSE [off |-> c.dataLen, len |-> 0]

\* bytes.NewReader(encryptedData), int64(len(encryptedData)): what an attempt sends
AttemptReader(c) == [off |-> 0, len |-> c.dataLen]

\* variant: the loop runs for attempt < maxRetries - 1
ChunkAttemptOneFewer(c, resp) ==
    LET r == Transfer(resp)
        seen == [c EXCEPT !.served = Append(@, resp)]
        failed == [seen EXCEPT !.pc = "done", !.lastErr = r.err,
                               !.err = ChunkFailed(c.partIndex, r.err)]
    IN  IF r.err = NoErr
        THEN [seen EXCEPT !.pc = "done", !.etag = r.etag]
        ELSE IF ~isRetryableError(r.err) THEN failed
        ELSE IF c.attempt + 1 < maxRetries - 1
        THEN [seen EXCEPT !.pc = "sleep", !.lastErr = r.err, !.attempt = c.attempt + 1]
        ELSE [failed EXCEPT !.attempt = c.attempt + 1]

\* the rest of one loop iteration: the Transfer, and what the loop does with its result
ChunkAttempt(c, resp) ==
    LET r == Transfer(resp)
        seen == [c EXCEPT !.served = Append(@, resp),
                          !.puts = Append(@, AttemptReader(c))]
        failed == [seen EXCEPT !.pc = "done", !.lastErr = r.err,
                               !.err = ChunkFailed(c.partIndex, r.err)]
    IN  IF r.err = NoErr
        THEN [seen EXCEPT !.pc = "done", !.etag = r.etag]
        ELSE IF ~isRetryableError(r.err) THEN failed
        ELSE IF c.attempt + 1 < maxRetries
        THEN [seen EXCEPT !.pc = "sleep", !.lastErr = r.err, !.attempt = c.attempt + 1]
        ELSE [failed EXCEPT !.attempt = c.attempt + 1]

\* the whole call against a server that answers its successive requests with script
RECURSIVE uploadChunkWithRetry(_, _)
uploadChunkWithRetry(c, script) ==
    IF c.pc = "done" THEN c
    ELSE IF c.pc = "sleep" THEN uploadChunkWithRetry(ChunkBackoff(c), script)
    ELSE uploadChunkWithRetry(ChunkAttempt(c, Head(script)), Tail(script))

ChunkTransferStep ==
    /\ chunk.pc = "transfer"
    /\ \E resp \in PutResponses : chunk' = ChunkAttempt(chunk, resp)
    /\ UNCHANGED <<callVars, stream, mpVars, metaVars>>
    /\ UNCHANGED restVars

ChunkSleepStep ==
    /\ chunk.pc = "sleep"
    /\ chunk' = ChunkBackoff(chunk)
    /\ UNCHANGED <<callVars, stream, mpVars, metaVars>>
    /\ UNCHANGED restVars

----------------------------------------------------------------------------
(* CreateMetaFile                                                          *)

\* what the create-meta endpoint can come back with: status 0 stands for a
\* transport failure, json says whether a 2xx body decodes
MetaResponses ==
    [status : {200}, json : BOOLEAN]
    \cup [status : {0, 400, 401, 403, 404, 409, 500, 503}, json : {FALSE}]

NoMetaErr == [kind |-> "none", status |-> 0]
CtxErr    == [kind |-> "ctx", status |-> 0]

\* doCreateMetaFile: one POST; an HTTPError for a non-2xx answer
doCreateMetaFile(resp) ==
    IF resp.status = 0
    THEN [err |-> [kind |-> "transport", status |-> 0], uuid |-> ""]
    ELSE IF resp.status < 200 \/ resp.status >= 300
    THEN [err |-> [kind |-> "http", status |-> resp.status], uuid |-> ""]
    ELSE IF ~resp.json
    THEN [err |-> [kind |-> "unmarshal", status |-> 0], uuid |-> ""]
    ELSE [err |-> NoMetaErr, uuid |-> "uuid"]

\* variant: every HTTP error is retried
IsAnyHTTPError(err) == err.kind = "http"

\* variant: the status compared with is 400
IsBadRequest(err) == err.kind = "http" /\ err.status = 400

\* errors.As(err, &httpErr) && httpErr.StatusCode() == http.StatusNotFound
IsNotFound(err) == err.kind = "http" /\ err.status = 404

MaxLatency == 1   \* a due timer or a ready select case is served within this many ticks

\* the wait before the retry, in ticks of 100 ms
metaRetryDelay == 5

\* waitedFor (how long the wait lasted when the timer ended it) and cancelledIn (where
\* the call was when its context was cancelled) are kept for the record only
MetaIdle == [pc |-> "idle", fileID |-> "nil", size |-> 0, sent |-> 0,
             served |-> <<>>, waited |-> FALSE, waitedFor |-> 0, cancelledIn |-> "",
             err |-> NoMetaErr, uuid |-> ""]

CreateMetaFile(fileID, size) == [MetaIdle EXCEPT !.pc = "first", !.fileID = fileID, !.size = size]

\* a request made with a cancelled context fails in the client and is not sent
MetaAnswers == IF ctxDone THEN {[status |-> 0, json |-> FALSE]} ELSE MetaResponses

MetaRequest(m, resp) ==
    LET r == doCreateMetaFile(resp)
    IN  [m EXCEPT !.sent = IF ctxDone THEN @ ELSE @ + 1,
                  !.served = IF resp.status = 0 THEN @ ELSE Append(@, resp),
                  !.err = r.err, !.uuid = r.uuid]

\* the first attempt, and the decision to retry
MetaFirstResult(m, resp) ==
    LET m1 == MetaRequest(m, resp)
    IN  IF m1.err = NoMetaErr THEN [m1 EXCEPT !.pc = "done"]
        ELSE IF ~IsNotFound(m1.err) THEN [m1 EXCEPT !.pc = "done"]
        ELSE [m1 EXCEPT !.pc = "wait"]

MetaFirst ==
    /\ meta.pc = "first"
    /\ \E resp \in MetaAnswers : meta' = MetaFirstResult(meta, resp)
    /\ UNCHANGED <<callVars, stream, mpVars, chunk, ctxDone>>
    /\ UNCHANGED restVars

\* variant: the wait is not ended by the context
MetaWaitIgnoresCtx(m, woken) == [m EXCEPT !.pc = "second", !.waited = TRUE]

\* select { case <-ctx.Done(): ...; case <-time.After(500ms): }
MetaWaitResult(m, woken) ==
    IF woken = "ctx" THEN [m EXCEPT !.pc = "done", !.err = CtxErr, !.uuid = ""]
    ELSE [m EXCEPT !.pc = "second", !.waited = TRUE]

\* the blocked select is ended by the first of its two events: the cancellation, or
\* the timer, which fires when its duration has passed or up to MaxLatency later
MetaWait ==
    /\ meta.pc = "wait"
    /\ \E woken \in (IF ctxDone THEN {"ctx"} ELSE {"timer"}), late \in 0..MaxLatency :
          meta' = [MetaWaitResult(meta, woken) EXCEPT
                     !.waitedFor = IF woken = "timer" THEN metaRetryDelay + late ELSE @]
    /\ UNCHANGED <<callVars, stream, mpVars, chunk, ctxDone>>
    /\ UNCHANGED restVars

MetaSecondResult(m, resp) == [MetaRequest(m, resp) EXCEPT !.pc = "done"]

MetaSecond ==
    /\ meta.pc = "second"
    /\ \E resp \in MetaAnswers : meta' = MetaSecondResult(meta, resp)
    /\ UNCHANGED <<callVars, stream, mpVars, chunk, ctxDone>>
    /\ UNCHANGED restVars

\* the caller cancels its context while CreateMetaFile is running
CancelCtx ==
    /\ ~ctxDone
    /\ meta.pc \in {"first", "wait", "second"}
    /\ ctxDone' = TRUE
    /\ meta' = [meta EXCEPT !.cancelledIn = meta.pc]
    /\ UNCHANGED <<callVars, stream, mpVars, chunk>>
    /\ UNCHANGED restVars

\* the caller cancels its context while uploadChunkWithRetry is about to sleep, or
\* sleeps, before a retry
ChunkCancelCtx ==
    /\ ~ctxDone
    /\ chunk.pc = "sleep"
    /\ ctxDone' = TRUE
    /\ UNCHANGED <<callVars, stream, mpVars, chunk, meta>>
    /\ UNCHANGED restVars

\* the caller cancels its context while the upload is on its way to CreateMetaFile
UploadCancelCtx ==
    /\ ~ctxDone
    /\ ~ret.done /\ meta.pc = "idle"
    /\ ctxDone' = TRUE
    /\ UNCHANGED <<callVars, stream, mpVars, chunk, meta>>
    /\ UNCHANGED restVars

----------------------------------------------------------------------------
(* Sizes, hashes and the protocol calls                                    *)

MiB == 1024 * 1024
DefaultChunkSize        == 30 * MiB
DefaultMultipartMinSize == 100 * MiB
DefaultMaxConcurrency   == 6
maxUnknownSizeBuffer    == 1024 * MiB
preReadSize             == 5 * MiB

MaxShort     == 1   \* how many bytes the input may fall short of plainSize
MaxChunks    == 2   \* direct multipart calls: sizes up to MaxChunks chunks and a byte
MaxPartIndex == 2   \* single chunk calls: part indices 0..MaxPartIndex

\* no modelled upload has more parts than this
ModelledParts == (DefaultMultipartMinSize \div DefaultChunkSize) + MaxChunks + 1

Min(a, b) == IF a < b THEN a ELSE b

\* hash functions are kept apart by a tag; the data hashed is the argument
Sha256(data)    == <<"sha256", data>>
Sha1(data)      == <<"sha1", data>>
Ripemd160(data) == <<"ripemd160", data>>
Hex(digest)     == <<"hex", digest>>

\* ComputeFileHash(sha256Result): hex of RIPEMD-160 of the SHA-256 digest
ComputeFileHash(sha256Result) == Hex(Ripemd160(sha256Result))

\* ciphertext produced by a CTR stream: the keystream offset it starts at and its length
Cipher(off, len) == [off |-> off, len |-> len]

\* one entry of the call log
Call(op, size, fileID, hash, parts, n) ==
    [op |-> op, size |-> size, fileID |-> fileID, hash |-> hash, parts |-> parts, n |-> n]
Invoke(op, size) == Call(op, size, "", <<>>, <<>>, 0)

Entry == calls[1].op
Ops   == [k \in 1..Len(calls) |-> calls[k].op]
Count(op) == Cardinality({k \in 1..Len(calls) : calls[k].op = op})

NoRet == [done |-> FALSE, err |-> "", cause |-> NoErr, uuid |-> ""]
Fail(e)  == [done |-> TRUE, err |-> e, cause |-> NoErr, uuid |-> ""]
Ok(uuid) == [done |-> TRUE, err |-> "", cause |-> NoErr, uuid |-> uuid]

\* where an uploader's return leads: back into UploadFileStreamAuto, or to its caller
AfterUpload == IF Entry = "UploadFileStreamAuto" THEN "auto.ret" ELSE "done"

\* failed names the protocol call that has returned an error to UploadFileStream
StreamIdle == [preBuf |-> 0, hashed |-> 0, startChan |-> <<>>, uploads |-> 0,
               url |-> "", hash |-> <<>>, fileID |-> "", failed |-> ""]
\* server says how the presigned URLs behave during the upload: "any" answer to each
\* request, always the 200 with an ETag ("healthy"), always a plain 500 ("down"), or
\* the one for the even parts and the other for the odd ones ("mixed"), or a 500 to
\* the first request of each URL and the 200 to the later ones ("flaky")
MpIdle == [server |-> "any",
           totalSize |-> 0, chunkSize |-> 0, numParts |-> 0, maxConcurrency |-> 0,
           uploads |-> 0, urls |-> 0, i |-> 0, cipherPos |-> 0,
           encryptedChunks |-> <<>>, hash |-> <<>>, parts |-> <<>>, fileID |-> ""]
\* received (the results in the order the collector took them) is kept for the
\* record only
\* puts (the PUT requests made to a server whose answers are fixed) likewise
ChIdle == [sem |-> 0, wg |-> 0, results |-> <<>>, received |-> <<>>, closed |-> FALSE,
           puts |-> {},
           parts |-> <<>>,
           firstError |-> NoErr, resultsCollected |-> 0, reordered |-> FALSE]

----------------------------------------------------------------------------
(* Answers of the Network tier                                             *)

\* start: status 0 a transport failure; json whether the body decodes;
\* uploads entries each carrying urls presigned URLs
StartResponses(numParts) ==
    [status : {0}, json : {FALSE}, uploads : {0}, urls : {0}]
    \cup [status : {200}, json : {FALSE}, uploads : {0}, urls : {0}]
    \cup [status : {200}, json : {TRUE}, uploads : {0, 1, 2},
          urls : {k \in {numParts - 1, numParts, numParts + 1} : k >= 0}]

\* StartUpload: decodes the body it got
StartUpload(resp) ==
    IF resp.status = 0 THEN [err |-> "transport", uploads |-> 0, urls |-> 0]
    ELSE IF ~resp.json THEN [err |-> "decode", uploads |-> 0, urls |-> 0]
    ELSE [err |-> "", uploads |-> resp.uploads, urls |-> resp.urls]

\* finish: dup says the body contains "duplicate key error"
FinishResponses ==
    [status : {0}, dup : {FALSE}] \cup [status : {200}, dup : {FALSE}]
    \cup [status : {500}, dup : BOOLEAN]

\* FinishUpload / FinishMultipartUpload: the finish call's result
FinishUpload(resp) ==
    IF resp.status = 0 THEN [err |-> "transport", id |-> ""]
    ELSE IF resp.status < 200 \/ resp.status >= 300
    THEN IF resp.status = 500 /\ resp.dup
         THEN [err |-> "duplicate shard", id |-> ""]
         ELSE [err |-> "finish failed", id |-> ""]
    ELSE [err |-> "", id |-> "network-id"]

----------------------------------------------------------------------------
(* UploadFileStreamAuto                                                    *)

\* variant: a threshold that excludes the minimum size itself
UseMultipartAbove(size) == size > DefaultMultipartMinSize

\* if plainSize >= config.DefaultMultipartMinSize
UseMultipart(size) == size >= DefaultMultipartMinSize

SizeClasses == {"empty", "small", "above MaxThumbnailSourceSize"}

\* variant: the size is not looked at
CapturesAnySize(supported, size) == supported

\* the tee is installed for a supported format and 0 < plainSize <= MaxThumbnailSourceSize
Captures(supported, size) == supported /\ size = "small"

\* where plainSize lies with respect to 0 and config.MaxThumbnailSourceSize
SizeClass(size, limit) ==
    IF size <= 0 THEN "empty"
    ELSE IF size <= limit THEN "small"
    ELSE "above MaxThumbnailSourceSize"

\* the launch "go uploadThumbnailAsync(...)": a new goroutine at its first step
Launch(t) == [t EXCEPT !.tasks = Append(@, "generate")]

\* variant: a limit that excludes the limit itself
ExceedsLimitOrEqual(n) == n >= maxUnknownSizeBuffer

\* if int64(len(bufferedData)) > maxUnknownSizeBuffer
ExceedsLimit(n) == n > maxUnknownSizeBuffer

\* the function up to the call of the uploader it chooses
AutoDispatch ==
    /\ pc = "auto"
    /\ LET read == Min(inRemaining, maxUnknownSizeBuffer + 1)
           size == IF plainSize < 0 THEN read ELSE plainSize
       IN  IF plainSize < 0 /\ ExceedsLimit(read)
           THEN /\ ret' = Fail("unknown-size upload exceeds limit")
                /\ pc' = "done"
                /\ inRemaining' = inRemaining - read
                /\ UNCHANGED <<plainSize, calls>>
           ELSE /\ plainSize' = size
                /\ inRemaining' = IF plainSize < 0 THEN read ELSE inRemaining
                /\ IF UseMultipart(size)
                   THEN /\ calls' = Append(calls, Invoke("UploadFileStreamMultipart", size))
                        /\ pc' = "mp.new"
                   ELSE /\ calls' = Append(calls, Invoke("UploadFileStream", size))
                        /\ pc' = "s.preread"
                /\ UNCHANGED ret
    /\ thumb' = IF pc' = "done" THEN thumb
                ELSE [thumb EXCEPT
                        !.captured = Captures(thumb.supported,
                                              SizeClass(plainSize', thumb.limit)),
                        !.teeStart = inRemaining']
    /\ UNCHANGED <<stream, mpVars, chunk, metaVars>>
    /\ UNCHANGED <<gate, dl, fin, herr>>

\* capturedData.Len(): what went through the tee
CapturedLen == thumb.teeStart - inRemaining

\* the function after the uploader has returned: the error goes to the caller;
\* otherwise the thumbnail goroutine is started if something was captured
AutoReturn ==
    /\ pc = "auto.ret"
    /\ pc' = "done"
    /\ thumb' = IF ret.err = "" /\ thumb.captured /\ CapturedLen > 0
                THEN Launch(thumb)
                ELSE thumb
    /\ UNCHANGED <<plainSize, inRemaining, calls, ret, stream, mpVars, chunk, metaVars>>
    /\ UNCHANGED <<gate, dl, fin, herr>>

----------------------------------------------------------------------------
(* UploadFileStream                                                        *)

\* the encrypting, hashing reader is set up and the first bytes are read through it
StreamPreRead ==
    /\ pc = "s.preread"
    /\ LET n == IF plainSize < 0 THEN inRemaining
                ELSE Min(Min(plainSize, preReadSize), inRemaining)
       IN  /\ stream' = [stream EXCEPT !.preBuf = n, !.hashed = n]
           /\ inRemaining' = inRemaining - n
           /\ plainSize' = IF plainSize < 0 THEN n ELSE plainSize
    /\ pc' = "s.start"
    /\ UNCHANGED <<calls, ret, mpVars, chunk, metaVars>>
    /\ UNCHANGED restVars

\* the goroutine: StartUpload, its result sent on startChan
StreamStart ==
    /\ pc = "s.start"
    /\ \E resp \in StartResponses(1) :
          stream' = [stream EXCEPT !.startChan = <<StartUpload(resp)>>]
    /\ calls' = Append(calls, Call("start", plainSize, "", <<>>, <<>>, 1))
    /\ pc' = "s.await"
    /\ UNCHANGED <<plainSize, inRemaining, ret, mpVars, chunk, metaVars>>
    /\ UNCHANGED restVars

\* startRes := <-startChan, and the checks on it
StreamAwaitStart ==
    /\ pc = "s.await"
    /\ stream.startChan # <<>>
    /\ LET startRes == Head(stream.startChan)
       IN  IF startRes.err # ""
           THEN /\ ret' = Fail("failed to start upload")
                /\ pc' = AfterUpload
                /\ stream' = [stream EXCEPT !.startChan = <<>>, !.failed = "start"]
           ELSE IF startRes.uploads = 0
           THEN /\ ret' = Fail("startResp.Uploads is empty")
                /\ pc' = AfterUpload
                /\ stream' = [stream EXCEPT !.startChan = <<>>, !.failed = "start"]
           ELSE /\ stream' = [stream EXCEPT !.startChan = <<>>,
                                            !.uploads = startRes.uploads,
                                            !.url = IF startRes.urls > 0 THEN "URLs[0]" ELSE "URL"]
                /\ pc' = "s.transfer"
                /\ UNCHANGED ret
    /\ UNCHANGED <<plainSize, inRemaining, calls, mpVars, chunk, metaVars>>
    /\ UNCHANGED restVars

\* variant: a failed transfer is tried once more
StreamTransferRetried ==
    /\ pc = "s.transfer"
    /\ LET body == stream.preBuf + inRemaining
           sent == Call("transfer", plainSize, "", <<>>, <<>>, 0)
       IN  /\ inRemaining' = 0
           /\ \E resp \in (IF body = plainSize THEN PutResponses
                           ELSE {[status |-> 0, body |-> BodyPlain, etag |-> <<>>]}) :
                 IF Transfer(resp).err # NoErr
                 THEN /\ calls' = Append(Append(calls, sent), sent)
                      /\ ret' = Fail("failed to transfer file data")
                      /\ pc' = AfterUpload
                      /\ stream' = [stream EXCEPT !.hashed = body, !.failed = "transfer"]
                 ELSE /\ calls' = Append(calls, sent)
                      /\ stream' = [stream EXCEPT
                            !.hashed = body,
                            !.hash = ComputeFileHash(Sha256(<<Cipher(0, body)>>))]
                      /\ pc' = "s.finish"
                      /\ UNCHANGED ret
    /\ UNCHANGED <<plainSize, mpVars, chunk, metaVars>>
    /\ UNCHANGED restVars

\* Transfer(ctx, cfg, uploadURL, multiReader, plainSize) and the hash of what was sent;
\* a body that does not hold Content-Length bytes fails in the HTTP client
StreamTransfer ==
    /\ pc = "s.transfer"
    /\ calls' = Append(calls, Call("transfer", plainSize, "", <<>>, <<>>, 0))
    /\ LET body == stream.preBuf + inRemaining
       IN  /\ inRemaining' = 0
           /\ \E resp \in (IF body = plainSize THEN PutResponses
                           ELSE {[status |-> 0, body |-> BodyPlain, etag |-> <<>>]}) :
                 IF Transfer(resp).err # NoErr
                 THEN /\ ret' = Fail("failed to transfer file data")
                      /\ pc' = AfterUpload
                      /\ stream' = [stream EXCEPT !.hashed = body, !.failed = "transfer"]
                 ELSE /\ stream' = [stream EXCEPT
                            !.hashed = body,
                            !.hash = ComputeFileHash(Sha256(<<Cipher(0, body)>>))]
                      /\ pc' = "s.finish"
                      /\ UNCHANGED ret
    /\ UNCHANGED <<plainSize, mpVars, chunk, metaVars>>
    /\ UNCHANGED restVars

\* variant: the finish call's error is dropped
StreamFinishUnchecked ==
    /\ pc = "s.finish"
    /\ calls' = Append(calls, Call("finish", 0, "", stream.hash, <<>>, 0))
    /\ \E resp \in FinishResponses :
          stream' = [stream EXCEPT !.fileID = FinishUpload(resp).id,
                                   !.failed = IF FinishUpload(resp).err # ""
                                              THEN "finish" ELSE @]
    /\ pc' = "s.meta"
    /\ UNCHANGED <<plainSize, inRemaining, ret, mpVars, chunk, metaVars>>
    /\ UNCHANGED restVars

StreamFinish ==
    /\ pc = "s.finish"
    /\ calls' = Append(calls, Call("finish", 0, "", stream.hash, <<>>, 0))
    /\ \E resp \in FinishResponses :
          LET finishResp == FinishUpload(resp)
          IN  IF finishResp.err # ""
              THEN /\ ret' = Fail("failed to finish upload")
                   /\ pc' = AfterUpload
                   /\ stream' = [stream EXCEPT !.failed = "finish"]
              ELSE /\ stream' = [stream EXCEPT !.fileID = finishResp.id]
                   /\ pc' = "s.meta"
                   /\ UNCHANGED ret
    /\ UNCHANGED <<plainSize, inRemaining, mpVars, chunk, metaVars>>
    /\ UNCHANGED restVars

StreamCreateMeta ==
    /\ pc = "s.meta"
    /\ calls' = Append(calls, Call("createMeta", plainSize, stream.fileID, <<>>, <<>>, 0))
    /\ meta' = CreateMetaFile(stream.fileID, plainSize)
    /\ pc' = "metawait"
    /\ UNCHANGED <<plainSize, inRemaining, ret, stream, mpVars, chunk, ctxDone>>
    /\ UNCHANGED restVars

\* CreateMetaFile has returned: the uploader returns its result
MetaReturn ==
    /\ pc = "metawait"
    /\ meta.pc = "done"
    /\ ret' = IF meta.err = NoMetaErr THEN Ok(meta.uuid)
              ELSE Fail("failed to create file metadata")
    /\ pc' = AfterUpload
    /\ UNCHANGED <<plainSize, inRemaining, calls, stream, mpVars, chunk, metaVars>>
    /\ UNCHANGED restVars

----------------------------------------------------------------------------
(* UploadFileStreamMultipart                                               *)

\* variant: the quotient rounded down, plus one
NumPartsFloorPlusOne(size, chunkSize) == (size \div chunkSize) + 1

\* numParts := (plainSize + chunkSize - 1) / chunkSize
NumParts(size, chunkSize) == (size + chunkSize - 1) \div chunkSize

newMultipartUploadState(size) ==
    [MpIdle EXCEPT !.totalSize = size,
                   !.chunkSize = DefaultChunkSize,
                   !.numParts = NumParts(size, DefaultChunkSize),
                   !.maxConcurrency = DefaultMaxConcurrency]

MultipartNew ==
    /\ pc = "mp.new"
    /\ mp' = [newMultipartUploadState(plainSize) EXCEPT !.server = mp.server]
    /\ pc' = "mp.start"
    /\ UNCHANGED <<plainSize, inRemaining, calls, ret, stream, wk, ch, chunk, metaVars>>
    /\ UNCHANGED restVars

\* variant: more URLs than parts are accepted
StartRespErrorTooFew(startResp, numParts) ==
    IF startResp.uploads # 1 THEN "expected 1 upload entry"
    ELSE IF startResp.urls < numParts THEN "expected numParts URLs"
    ELSE ""

\* the checks on the start response: one upload entry, numParts URLs in it
StartRespError(startResp, numParts) ==
    IF startResp.uploads # 1 THEN "expected 1 upload entry"
    ELSE IF startResp.urls # numParts THEN "expected numParts URLs"
    ELSE ""

\* executeMultipartUpload up to encryptAllChunks: the start call, whose response is
\* kept in the state, and the checks on it
MultipartStart ==
    /\ pc = "mp.start"
    /\ calls' = Append(calls, Call("start", mp.totalSize, "", <<>>, <<>>, mp.numParts))
    /\ \E resp \in StartResponses(mp.numParts) :
          LET startResp == StartUpload(resp)
          IN  IF startResp.err # ""
              THEN /\ ret' = Fail("failed to start multipart upload")
                   /\ pc' = AfterUpload
                   /\ UNCHANGED mp
              ELSE /\ mp' = [mp EXCEPT !.uploads = startResp.uploads,
                                       !.urls = startResp.urls]
                   /\ IF StartRespError(startResp, mp.numParts) # ""
                      THEN /\ ret' = Fail(StartRespError(startResp, mp.numParts))
                           /\ pc' = AfterUpload
                      ELSE /\ pc' = "mp.encrypt"
                           /\ UNCHANGED ret
    /\ UNCHANGED <<plainSize, inRemaining, stream, wk, ch, chunk, metaVars>>
    /\ UNCHANGED restVars

\* the size encryptAllChunks allocates for chunk i
ChunkLen(s, i) == IF i = s.numParts - 1 THEN s.totalSize - (i * s.chunkSize)
                  ELSE s.chunkSize

\* one iteration of encryptAllChunks: io.ReadFull into the chunk buffer, then
\* XORKeyStream of what was read
EncryptChunk ==
    /\ pc = "mp.encrypt"
    /\ mp.i < mp.numParts
    /\ LET want == ChunkLen(mp, mp.i)
           n == Min(want, inRemaining)
       IN  IF n = 0 /\ want > 0
           THEN \* io.EOF: nothing could be read
                /\ ret' = Fail("failed to encrypt chunks")
                /\ pc' = AfterUpload
                /\ UNCHANGED <<mp, inRemaining>>
           ELSE /\ mp' = [mp EXCEPT
                            !.encryptedChunks = Append(@, Cipher(mp.cipherPos, n)),
                            !.cipherPos = @ + n,
                            !.i = @ + 1]
                /\ inRemaining' = inRemaining - n
                /\ UNCHANGED <<pc, ret>>
    /\ UNCHANGED <<plainSize, calls, stream, wk, ch, chunk, metaVars>>
    /\ UNCHANGED restVars

----------------------------------------------------------------------------
(* uploadConcurrently                                                      *)

ZeroPart == [PartNumber |-> 0, ETag |-> <<>>]

\* variant: the goroutines are started as soon as one chunk is encrypted
SpawnWorkersEarly ==
    /\ pc = "mp.encrypt"
    /\ mp.i >= 1
    /\ wk' = [idx \in 0..(Len(mp.encryptedChunks) - 1) |-> "queued"]
    /\ ch' = [ChIdle EXCEPT !.wg = Len(mp.encryptedChunks),
                            !.parts = [k \in 1..mp.numParts |-> ZeroPart]]
    /\ pc' = "mp.collect"
    /\ UNCHANGED <<plainSize, inRemaining, calls, ret, stream, mp, chunk, metaVars>>
    /\ UNCHANGED restVars

\* the loop that starts one goroutine per chunk, and the goroutine that closes results
SpawnWorkers ==
    /\ pc = "mp.encrypt"
    /\ mp.i = mp.numParts
    /\ wk' = [idx \in 0..(Len(mp.encryptedChunks) - 1) |-> "queued"]
    /\ ch' = [ChIdle EXCEPT !.wg = Len(mp.encryptedChunks),
                            !.parts = [k \in 1..mp.numParts |-> ZeroPart]]
    /\ pc' = "mp.collect"
    /\ UNCHANGED <<plainSize, inRemaining, calls, ret, stream, mp, chunk, metaVars>>
    /\ UNCHANGED restVars

\* variant: the goroutine does not wait for a free slot of the semaphore
WorkerAcquireUnbounded(idx) ==
    /\ wk[idx] = "queued"
    /\ ch' = [ch EXCEPT !.sem = @ + 1]
    /\ wk' = [wk EXCEPT ![idx] = "running"]
    /\ UNCHANGED <<callVars, stream, mp, chunk, metaVars>>
    /\ UNCHANGED restVars

\* semaphore <- struct{}{}
WorkerAcquire(idx) ==
    /\ wk[idx] = "queued"
    /\ ch.sem < mp.maxConcurrency
    /\ ch' = [ch EXCEPT !.sem = @ + 1]
    /\ wk' = [wk EXCEPT ![idx] = "running"]
    /\ UNCHANGED <<callVars, stream, mp, chunk, metaVars>>
    /\ UNCHANGED restVars

\* what the presigned URLs answer during a whole upload
ChunkPutResponses ==
    {r \in PutResponses : /\ r.status \in {200, 404, 500}
                          /\ r.body # Body404
                          /\ r.etag # <<"etag">>}

ChunkScripts == [1..maxRetries -> ChunkPutResponses]

\* the result a goroutine sends: uploadResult{index, etag, err}
UploadResult(idx, c) == [index |-> idx, etag |-> c.etag, err |-> c.err]

\* the results chunk idx can end with, over all the answers of its URL
ChunkResults(idx) ==
    {UploadResult(idx, uploadChunkWithRetry(ChunkCall(idx), script)) :
        script \in ChunkScripts}

\* ChunkResults, tabulated for the part indices the modelled sizes reach
ChunkResultTable == [idx \in 0..ModelledParts |-> ChunkResults(idx)]

\* the answers of a server that is up, and of one that is down
HealthyPut == [status |-> 200, body |-> <<>>, etag |-> <<"\"", "etag", "\"">>]
DownPut    == [status |-> 500, body |-> BodyPlain, etag |-> <<>>]

\* the answers of the URL of part idx to its successive requests
ServerScript(server, idx) ==
    IF server = "healthy" \/ (server = "mixed" /\ idx % 2 = 0)
    THEN [k \in 1..maxRetries |-> HealthyPut]
    ELSE IF server = "flaky"
    THEN [k \in 1..maxRetries |-> IF k = 1 THEN DownPut ELSE HealthyPut]
    ELSE [k \in 1..maxRetries |-> DownPut]

\* uploadChunkWithRetry for part idx against each of these servers, tabulated for
\* the part indices the modelled sizes reach
ServerRunTable ==
    [server \in {"healthy", "flaky", "mixed", "down"} |->
        [idx \in 0..ModelledParts |->
            uploadChunkWithRetry(ChunkCall(idx), ServerScript(server, idx))]]

\* the results chunk idx can end with under the server's behaviour
ServerResults(server, idx) ==
    IF server = "any" THEN ChunkResultTable[idx]
    ELSE {UploadResult(idx, ServerRunTable[server][idx])}

\* variant: the URL after the part's own
UploadURLNext(partIndex) == partIndex + 1

\* uploadURL := s.startResp.Uploads[0].URLs[partIndex], as an index into URLs
UploadURL(partIndex) == partIndex

\* the PUT requests uploadChunkWithRetry(idx, data) makes: the URL, the stretch of
\* ciphertext in the body, the Content-Length, and the answer
ServerPuts(server, idx, data) ==
    IF server = "any" THEN {}
    ELSE LET c == [ServerRunTable[server][idx] EXCEPT !.dataLen = data.len]
             sent == AttemptReader(c)
         IN  {[url |-> UploadURL(c.partIndex),
               attempt |-> k,
               body |-> Cipher(data.off + sent.off, sent.len),
               contentLength |-> c.dataLen,
               status |-> c.served[k].status,
               etag |-> Transfer(c.served[k]).etag] : k \in 1..Len(c.served)}

\* results, made with capacity numParts, has room for one more result
CanSend == Len(ch.results) < mp.numParts

\* the rest of the goroutine: etag, err := s.uploadChunkWithRetry(idx, encryptedChunks[idx]),
\* results <- uploadResult{...}, then the deferred <-semaphore and wg.Done()
WorkerUpload(idx) ==
    /\ wk[idx] = "running"
    /\ CanSend
    /\ \E result \in ServerResults(mp.server, idx) :
          ch' = [ch EXCEPT !.results = Append(@, result),
                           !.puts = @ \cup ServerPuts(mp.server, idx,
                                                      mp.encryptedChunks[idx + 1]),
                           !.sem = @ - 1,
                           !.wg = @ - 1]
    /\ wk' = [wk EXCEPT ![idx] = "done"]
    /\ UNCHANGED <<callVars, stream, mp, chunk, metaVars>>
    /\ UNCHANGED restVars

\* variant: results is closed when the last goroutine has taken its slot
CloseResultsEarly ==
    /\ pc = "mp.collect"
    /\ ~ch.closed
    /\ \A idx \in DOMAIN wk : wk[idx] # "queued"
    /\ ch' = [ch EXCEPT !.closed = TRUE]
    /\ UNCHANGED <<callVars, stream, mp, wk, chunk, metaVars>>
    /\ UNCHANGED restVars

\* wg.Wait(); close(results)
CloseResults ==
    /\ pc = "mp.collect"
    /\ ~ch.closed
    /\ ch.wg = 0
    /\ ch' = [ch EXCEPT !.closed = TRUE]
    /\ UNCHANGED <<callVars, stream, mp, wk, chunk, metaVars>>
    /\ UNCHANGED restVars

\* variant: a successful result goes to the first slot still unused
PlacePartNext(parts, result) ==
    LET stored == Cardinality({k \in 1..Len(parts) : parts[k].PartNumber # 0})
    IN  [parts EXCEPT ![stored + 1] =
            [PartNumber |-> result.index + 1, ETag |-> result.etag]]

\* where the collector stores a successful result
PlacePart(parts, result) ==
    [parts EXCEPT ![result.index + 1] =
        [PartNumber |-> result.index + 1, ETag |-> result.etag]]

\* a part of a higher index has been stored already (kept for the record only)
Overtaken(parts, result) ==
    \E k \in (result.index + 2)..Len(parts) : parts[k].PartNumber # 0

\* variant: the errors of the results are dropped
CollectedIgnoringErrors(c, result) ==
    [c EXCEPT !.results = Tail(@),
              !.resultsCollected = @ + 1,
              !.reordered = @ \/ Overtaken(c.parts, result),
              !.parts = IF result.err = NoErr THEN PlacePart(@, result) ELSE @]

\* variant: the error of the latest failed result is kept
CollectedLastError(c, result) ==
    [c EXCEPT !.results = Tail(@),
              !.resultsCollected = @ + 1,
              !.reordered = @ \/ Overtaken(c.parts, result),
              !.firstError = IF result.err # NoErr THEN result.err ELSE @,
              !.parts = IF result.err = NoErr THEN PlacePart(@, result) ELSE @]

\* one iteration of "for result := range results"
Collected(c, result) ==
    [c EXCEPT !.results = Tail(@),
              !.resultsCollected = @ + 1,
              !.reordered = @ \/ Overtaken(c.parts, result),
              !.firstError = IF result.err # NoErr /\ @ = NoErr THEN result.err ELSE @,
              !.parts = IF result.err = NoErr THEN PlacePart(@, result) ELSE @]

CollectResult ==
    /\ pc = "mp.collect"
    /\ ch.results # <<>>
    /\ ch' = [Collected(ch, Head(ch.results)) EXCEPT
                 !.received = Append(ch.received, Head(ch.results))]
    /\ UNCHANGED <<callVars, stream, mp, wk, chunk, metaVars>>
    /\ UNCHANGED restVars

\* the hash uploadConcurrently returns for the chunks
OverallHash(encryptedChunks) == Hex(Sha1(encryptedChunks))

\* the range loop ends on the closed, drained channel; uploadConcurrently and
\* executeMultipartUpload return
CollectEnd ==
    /\ pc = "mp.collect"
    /\ ch.results = <<>>
    /\ ch.closed
    /\ IF ch.firstError # NoErr
       THEN /\ ret' = [Fail("failed to upload chunks") EXCEPT !.cause = ch.firstError]
            /\ pc' = AfterUpload
            /\ UNCHANGED mp
       ELSE /\ mp' = [mp EXCEPT !.hash = OverallHash(mp.encryptedChunks),
                                !.parts = ch.parts]
            /\ pc' = "mp.finish"
            /\ UNCHANGED ret
    /\ UNCHANGED <<plainSize, inRemaining, calls, stream, wk, ch, chunk, metaVars>>
    /\ UNCHANGED restVars

MultipartFinish ==
    /\ pc = "mp.finish"
    /\ calls' = Append(calls, Call("finishMultipart", 0, "", mp.hash, mp.parts, 0))
    /\ \E resp \in FinishResponses :
          LET finishResp == FinishUpload(resp)
          IN  IF finishResp.err # ""
              THEN /\ ret' = Fail("failed to finish multipart upload")
                   /\ pc' = AfterUpload
                   /\ UNCHANGED mp
              ELSE /\ mp' = [mp EXCEPT !.fileID = finishResp.id]
                   /\ pc' = "mp.meta"
                   /\ UNCHANGED ret
    /\ UNCHANGED <<plainSize, inRemaining, stream, wk, ch, chunk, metaVars>>
    /\ UNCHANGED restVars

MultipartCreateMeta ==
    /\ pc = "mp.meta"
    /\ calls' = Append(calls, Call("createMeta", plainSize, mp.fileID, <<>>, <<>>, 0))
    /\ meta' = CreateMetaFile(mp.fileID, plainSize)
    /\ pc' = "metawait"
    /\ UNCHANGED <<plainSize, inRemaining, ret, stream, mpVars, chunk, ctxDone>>
    /\ UNCHANGED restVars

----------------------------------------------------------------------------
(* State of the other packages before any call                             *)

\* package consistency. Time is counted in ticks of 100 ms.
window == 5

MaxTime    == 9   \* the clock stops here; no call starts that could not end by then
MaxTracks  == 2   \* TrackFolder calls in one run

UUIDs == {"u1", "u2"}
Absent == -1

\* called, tracked (the TrackFolder calls for uuid that came before this call) and
\* returned are kept for the record only
AwaitIdle == [pc |-> "idle", uuid |-> "", called |-> 0, tracked |-> 0, loaded |-> Absent,
              deadline |-> 0, returned |-> 0, err |-> "none"]

\* one call of folders.CreateFolder: the instant it returned, the UUID of the folder
\* it returned and its error
CreateIdle == [pc |-> "idle", at |-> 0, uuid |-> "", err |-> "none"]

\* tracks (the instants of the TrackFolder calls) and ctxAt (the instant of the
\* cancellation) are kept for the record only
GateIdle ==
    [now |-> 0,
     create |-> CreateIdle,
     recentFolders |-> [u \in UUIDs |-> Absent],
     timers |-> {},
     tracks |-> [u \in UUIDs |-> <<>>],
     ctxAt |-> Absent,
     await |-> AwaitIdle]

\* package buckets, download. The block of AES, which is also the length of the IV.
BlockSize == 16
MaxPlain  == 64   \* the longest plaintext

NoRange == [has |-> FALSE, start |-> 0, end |-> -1]
DestAbsent == [exists |-> FALSE, data |-> <<>>]
DestFile(data) == [exists |-> TRUE, data |-> data]

\* read counts the bytes of the body that went through the reader; shards is the
\* length of the shard list of the file's info, gets the number of shard requests
\* made, dest0 the destination as it was before the call
DlIdle ==
    [pc |-> "idle", mode |-> "", shards |-> 0, gets |-> 0, dest0 |-> DestAbsent,
     size |-> 0, iv0 |-> <<>>, skip |-> FALSE,
     range |-> NoRange, sent |-> NoRange, status |-> 0, body |-> <<>>,
     expected |-> <<>>, iv |-> <<>>, validate |-> FALSE, discarded |-> 0, read |-> 0,
     out |-> <<>>, dest |-> DestAbsent, err |-> "none", readErr |-> "", closeErr |-> ""]

\* background thumbnails. wg is the counter of the process-wide wait group; tasks are
\* the goroutines started so far; pendingAtReturn is what WaitForPendingThumbnails
\* left running when it returned (kept for the record only)
\* supported (the file name's extension is a supported image format) and limit
\* (config.MaxThumbnailSourceSize) are inputs of an UploadFileStreamAuto call; captured
\* says that the tee is installed, teeStart what the input held when it was
MaxAutoCalls == 2   \* UploadFileStreamAuto calls in one run
ThumbIdle == [wg |-> 0, tasks |-> <<>>, autoCalls |-> 0, wait |-> "idle",
              waitedAt |-> 0, pendingAtReturn |-> 0,
              supported |-> FALSE, limit |-> 0, captured |-> FALSE, teeStart |-> 0]

\* the finish endpoint: a call of FinishUpload or FinishMultipartUpload by itself
NoResponse == [status |-> 0, body |-> <<>>]
FinIdle == [pc |-> "idle", entry |-> "", resp |-> NoResponse, result |-> "nil",
            err |-> NoErr]

----------------------------------------------------------------------------
(* package consistency: TrackFolder, AwaitFolder                           *)

gateOthers == <<pc, plainSize, inRemaining, calls, ret, stream, mp, wk, ch, chunk, meta,
                dl, thumb, fin, herr>>

NumTracks == Len(gate.tracks["u1"]) + Len(gate.tracks["u2"])

\* a call made now ends before the clock stops
InTime == gate.now + window + MaxLatency <= MaxTime

\* variant: the entry is stored and no eviction is scheduled
TrackFolderNoTimer(uuid) ==
    /\ NumTracks < MaxTracks
    /\ InTime
    /\ gate' = [gate EXCEPT
          !.recentFolders[uuid] = gate.now,
          !.tracks[uuid] = Append(@, gate.now)]
    /\ UNCHANGED <<gateOthers, ctxDone>>

\* recentFolders.Store(uuid, time.Now()); time.AfterFunc(window, delete)
TrackFolder(uuid) ==
    /\ NumTracks < MaxTracks
    /\ InTime
    /\ gate' = [gate EXCEPT
          !.recentFolders[uuid] = gate.now,
          !.timers = @ \cup {[uuid |-> uuid, at |-> gate.now + window]},
          !.tracks[uuid] = Append(@, gate.now)]
    /\ UNCHANGED <<gateOthers, ctxDone>>

\* the function given to time.AfterFunc runs: recentFolders.Delete(uuid)
EvictTimer ==
    /\ \E t \in gate.timers :
          /\ gate.now >= t.at
          /\ gate' = [gate EXCEPT !.recentFolders[t.uuid] = Absent,
                                  !.timers = @ \ {t}]
    /\ UNCHANGED <<gateOthers, ctxDone>>

\* variant: the whole window, whenever the folder was tracked
RemainingFull(v, now) == window

\* window - time.Since(v)
Remaining(v, now) == window - (now - v)

\* AwaitFolder up to the select statement
AwaitFolderCall(uuid) ==
    /\ gate.await.pc = "idle"
    /\ LET v == gate.recentFolders[uuid]
           called == [AwaitIdle EXCEPT !.uuid = uuid, !.called = gate.now, !.loaded = v,
                                       !.tracked = Len(gate.tracks[uuid]),
                                       !.returned = gate.now]
       IN  IF v = Absent
           THEN gate' = [gate EXCEPT !.await = [called EXCEPT !.pc = "done", !.err = "nil"]]
           ELSE IF Remaining(v, gate.now) <= 0
           THEN gate' = [gate EXCEPT !.await = [called EXCEPT !.pc = "done", !.err = "nil"]]
           ELSE gate' = [gate EXCEPT !.await =
                            [called EXCEPT !.pc = "select",
                                           !.deadline = gate.now + Remaining(v, gate.now)]]
    /\ UNCHANGED <<gateOthers, ctxDone>>

\* the cases of the select that can proceed
SelectReady ==
    (IF ctxDone THEN {"ctx"} ELSE {}) \cup
    (IF gate.now >= gate.await.deadline THEN {"nil"} ELSE {})

\* select { case <-ctx.Done(): return ctx.Err(); case <-time.After(remaining): return nil }
AwaitFolderSelect ==
    /\ gate.await.pc = "select"
    /\ \E case \in SelectReady :
          gate' = [gate EXCEPT !.await.pc = "done", !.await.err = case,
                               !.await.returned = gate.now]
    /\ UNCHANGED <<gateOthers, ctxDone>>

\* the caller cancels ctx
GateCancelCtx ==
    /\ ~ctxDone
    /\ gate.await.pc # "done"
    /\ ctxDone' = TRUE
    /\ gate' = [gate EXCEPT !.ctxAt = gate.now]
    /\ UNCHANGED gateOthers

\* since when the blocked select has had a case that can proceed
ReadySince ==
    LET c == IF ctxDone
             THEN {IF gate.ctxAt > gate.await.called THEN gate.ctxAt ELSE gate.await.called}
             ELSE {}
    IN  c \cup {gate.await.deadline}

\* time passes, unless a timer or the select is overdue
Tick ==
    /\ gate.now < MaxTime
    /\ \A t \in gate.timers : gate.now < t.at + MaxLatency
    /\ gate.await.pc = "select" => \A r \in ReadySince : gate.now < r + MaxLatency
    /\ gate' = [gate EXCEPT !.now = @ + 1]
    /\ UNCHANGED <<gateOthers, ctxDone>>

----------------------------------------------------------------------------
(* package buckets: DownloadFile, DownloadFileStream                       *)
(* A byte is a number below 256. The AES-CTR key stream is a fixed         *)
(* function of the counter block and of the position in the block, and     *)
(* XOR is addition modulo 256 (subtraction to decrypt).                    *)

dlOthers == <<pc, plainSize, inRemaining, calls, ret, stream, mp, wk, ch, chunk, meta,
              ctxDone, gate, thumb, fin, herr>>

PlainSizes == {0, BlockSize + 1, MaxPlain}
Plain(size) == [k \in 1..size |-> (37 * (k - 1) + 11) % 256]

\* the IV of the file: all zero, or about to carry over two bytes
IVs == {[k \in 1..BlockSize |-> 0],
        [k \in 1..BlockSize |-> IF k >= BlockSize - 1 THEN 255 ELSE 0]}

\* add one to the big-endian counter, from byte j leftwards
RECURSIVE IncrementIV(_, _)
IncrementIV(iv, j) ==
    IF j = 0 THEN iv
    ELSE IF iv[j] = 255 THEN IncrementIV([iv EXCEPT ![j] = 0], j - 1)
    ELSE [iv EXCEPT ![j] = iv[j] + 1]

\* the counter block of crypto/cipher's CTR stream after n blocks
RECURSIVE CounterBlock(_, _)
CounterBlock(iv, n) ==
    IF n = 0 THEN iv ELSE CounterBlock(IncrementIV(iv, BlockSize), n - 1)

\* add carry into byte j of the big-endian counter and carry on leftwards
RECURSIVE AddWithCarry(_, _, _)
AddWithCarry(iv, j, carry) ==
    IF j = 0 \/ carry = 0 THEN iv
    ELSE AddWithCarry([iv EXCEPT ![j] = (iv[j] + carry) % 256], j - 1,
                      (iv[j] + carry) \div 256)

\* variant: the counter is the low half of the IV, the carry out of it is dropped
RECURSIVE AddWithCarryLowHalf(_, _, _)
AddWithCarryLowHalf(iv, j, carry) ==
    IF j = BlockSize \div 2 \/ carry = 0 THEN iv
    ELSE AddWithCarryLowHalf([iv EXCEPT ![j] = (iv[j] + carry) % 256], j - 1,
                             (iv[j] + carry) \div 256)

adjustIVLowHalf(iv, blocks) == AddWithCarryLowHalf(iv, BlockSize, blocks)

adjustIVNoCarry(iv, blocks) ==
    [iv EXCEPT ![BlockSize] = (iv[BlockSize] + blocks) % 256]

adjustIV(iv, blocks) == AddWithCarry(iv, BlockSize, blocks)

RECURSIVE CounterDigest(_, _)
CounterDigest(iv, j) == IF j = 0 THEN 0 ELSE (j * iv[j]) + CounterDigest(iv, j - 1)

\* byte k (from 0) of the key stream of a CTR stream that starts at counter block iv
KeyStream(iv, k) ==
    (7 * CounterDigest(CounterBlock(iv, k \div BlockSize), BlockSize)
       + 13 * (k % BlockSize) + 5) % 256

EncryptReader(data, iv) ==
    [k \in 1..Len(data) |-> (data[k] + KeyStream(iv, k - 1)) % 256]

DecryptReader(data, iv) ==
    [k \in 1..Len(data) |-> (data[k] + 256 - KeyStream(iv, k - 1)) % 256]

\* what the network holds for the file (tabulated once)
StoredTable == [size \in PlainSizes |-> [iv0 \in IVs |-> EncryptReader(Plain(size), iv0)]]
Stored(size, iv0) == StoredTable[size][iv0]

Range(start, end) == [has |-> TRUE, start |-> start, end |-> end]

\* end = -1 is the open range "bytes=start-"
Ranges ==
    {r \in [has : {TRUE}, start : 0..(MaxPlain - 1), end : -1..(MaxPlain - 1)] :
        r.end = -1 \/ r.end >= r.start}

\* the shard server: it honours the Range header; it may fail, and it may send a
\* damaged or a shortened body
ServerFaults == {"none", "first", "last", "short", "404", "500"}

Flip(data, k) == [data EXCEPT ![k] = 255 - data[k]]

RangeBody(stored, r) ==
    IF ~r.has THEN stored
    ELSE SubSeq(stored, r.start + 1,
                IF r.end < 0 \/ r.end >= Len(stored) THEN Len(stored) ELSE r.end + 1)

Damaged(body, fault) ==
    IF body = <<>> THEN body
    ELSE IF fault = "first" THEN Flip(body, 1)
    ELSE IF fault = "last" THEN Flip(body, Len(body))
    ELSE IF fault = "short" THEN SubSeq(body, 1, Min(2, Len(body)))
    ELSE body

ShardServer(stored, r, fault) ==
    IF fault = "404" THEN [status |-> 404, body |-> <<>>]
    ELSE IF fault = "500" THEN [status |-> 500, body |-> <<>>]
    ELSE IF r.has /\ r.start >= Len(stored) THEN [status |-> 416, body |-> <<>>]
    ELSE [status |-> IF r.has THEN 206 ELSE 200,
          body |-> Damaged(RangeBody(stored, r), fault)]

WrongHash == Hex(<<"wrong-hash-intentionally">>)

\* the range asked of the server: the start moved down to a block boundary
AlignedStart(start) == (start \div BlockSize) * BlockSize

AlignedRange(r) ==
    IF r.has /\ r.start % BlockSize # 0 THEN Range(AlignedStart(r.start), r.end) ELSE r

\* whether the reader checks the hash
ValidatesAlways(skip, r) == TRUE
Validates(skip, r) == ~skip /\ ~r.has

\* DownloadFileStream up to the reader it returns
OpenStream(d, size, iv0, skip, r, expected, fault) ==
    LET sent   == AlignedRange(r)
        resp   == ShardServer(Stored(size, iv0), sent, fault)
        offset == r.start - sent.start
        ok     == resp.status \in {200, 206}
    IN  [d EXCEPT !.size = size, !.iv0 = iv0, !.skip = skip, !.range = r,
                  !.sent = sent, !.status = resp.status, !.expected = expected,
                  !.body = IF ok THEN resp.body ELSE <<>>,
                  !.iv = IF sent.start > 0 THEN adjustIV(iv0, sent.start \div BlockSize)
                         ELSE iv0,
                  !.validate = Validates(skip, r),
                  !.discarded = IF ok /\ Len(resp.body) >= offset THEN offset ELSE 0,
                  !.err = IF ~ok THEN "http"
                          ELSE IF Len(resp.body) < offset THEN "discard"
                          ELSE "none"]

\* variant: the shard list is not looked at
NoShardsIgnored(shards) == FALSE

\* len(info.Shards) == 0
NoShards(shards) == shards = 0

\* the file's info is fetched first; without shards the call ends there
OpenFile(d, shards, size, iv0, skip, r, expected, fault) ==
    IF NoShards(shards)
    THEN [d EXCEPT !.shards = shards, !.skip = skip, !.range = r, !.err = "no shards"]
    ELSE [OpenStream(d, size, iv0, skip, r, expected, fault)
             EXCEPT !.shards = shards, !.gets = 1]

\* the bytes the reader yields: the decrypted body after the discarded ones
Decrypted(d) == SubSeq(DecryptReader(d.body, d.iv), d.discarded + 1, Len(d.body))

\* the hash of the ciphertext that went through the reader so far
ReceivedHash(d) == ComputeFileHash(Sha256(SubSeq(d.body, 1, d.read)))

HashMismatch(d) == d.validate /\ ReceivedHash(d) # d.expected

ExpectedHashes(size, iv0) == {ComputeFileHash(Sha256(Stored(size, iv0))), WrongHash}

DownloadFileStreamCall ==
    /\ dl.pc = "idle"
    /\ \E size \in PlainSizes, iv0 \in IVs, skip \in BOOLEAN, fault \in ServerFaults,
          r \in Ranges \cup {NoRange}, shards \in {0, 1} :
          \E expected \in ExpectedHashes(size, iv0) :
             LET d == OpenFile([dl EXCEPT !.mode = "stream"], shards, size, iv0, skip, r,
                               expected, fault)
             IN  dl' = [d EXCEPT !.pc = IF d.err = "none" THEN "open" ELSE "done"]
    /\ UNCHANGED dlOthers

\* io.ReadAll on the stream
DlRead ==
    /\ dl.pc = "open" /\ dl.mode = "stream"
    /\ dl' = [dl EXCEPT !.pc = "eof", !.out = Decrypted(dl), !.read = Len(dl.body),
                        !.readErr = "none"]
    /\ UNCHANGED dlOthers

DlClose ==
    /\ dl.pc \in {"open", "eof"} /\ dl.mode = "stream"
    /\ dl' = [dl EXCEPT !.pc = "closed",
                        !.closeErr = IF HashMismatch(dl) THEN "hash mismatch" ELSE "none"]
    /\ UNCHANGED dlOthers

\* DownloadFile up to the creation of the destination file
DownloadFileCall ==
    /\ dl.pc = "idle"
    /\ \E size \in PlainSizes, iv0 \in IVs, skip \in BOOLEAN, fault \in ServerFaults,
          dest \in {DestAbsent, DestFile(<<1, 2, 3>>)}, shards \in {0, 1} :
          \E expected \in ExpectedHashes(size, iv0) :
             LET d == OpenFile([dl EXCEPT !.mode = "file", !.dest = dest, !.dest0 = dest],
                               shards, size, iv0, skip, NoRange, expected, fault)
             IN  dl' = IF d.err = "none"
                       THEN [d EXCEPT !.pc = "copy", !.dest = DestFile(<<>>)]
                       ELSE [d EXCEPT !.pc = "done"]
    /\ UNCHANGED dlOthers

DlFileCopy ==
    /\ dl.pc = "copy"
    /\ dl' = [dl EXCEPT !.pc = "check", !.dest = DestFile(Decrypted(dl)),
                        !.read = Len(dl.body)]
    /\ UNCHANGED dlOthers

KeepFileOnMismatch(d) == [d EXCEPT !.pc = "done",
                                   !.err = IF HashMismatch(d) THEN "hash mismatch" ELSE "none"]

FinishFile(d) ==
    IF HashMismatch(d)
    THEN [d EXCEPT !.pc = "done", !.err = "hash mismatch", !.dest = DestAbsent]
    ELSE [d EXCEPT !.pc = "done", !.err = "none"]

DlFileFinish ==
    /\ dl.pc = "check"
    /\ dl' = FinishFile(dl)
    /\ UNCHANGED dlOthers

----------------------------------------------------------------------------
(* package buckets: background thumbnail uploads                           *)

thumbOthers == <<pc, plainSize, inRemaining, calls, ret, stream, mp, wk, ch, chunk, meta,
                 ctxDone, gate, dl, fin, herr>>

\* the end of UploadFileStreamAuto, given what the upload it chose returned
AutoUploadReturn ==
    /\ thumb.autoCalls < MaxAutoCalls
    /\ \E supported \in BOOLEAN, size \in SizeClasses, failed \in BOOLEAN :
          LET t == [thumb EXCEPT !.autoCalls = @ + 1]
          IN  thumb' = IF ~failed /\ Captures(supported, size) THEN Launch(t) ELSE t
    /\ UNCHANGED thumbOthers

\* uploadThumbnail: GenerateAndPrepare, UploadFileStream, createThumbnailAPI; each can
\* fail, which ends the goroutine with a warning
ThumbNextStep(step) ==
    IF step = "generate" THEN "upload"
    ELSE IF step = "upload" THEN "register"
    ELSE "done"

ThumbnailStep(k) ==
    /\ thumb.tasks[k] # "done"
    /\ \E failed \in BOOLEAN :
          thumb' = [thumb EXCEPT !.tasks[k] =
                       IF failed THEN "done" ELSE ThumbNextStep(thumb.tasks[k])]
    /\ UNCHANGED thumbOthers

Pending(t) == Cardinality({k \in DOMAIN t.tasks : t.tasks[k] # "done"})

WaitForPendingThumbnailsCall ==
    /\ thumb.wait = "idle"
    /\ thumb' = [thumb EXCEPT !.wait = "waiting", !.waitedAt = Len(thumb.tasks)]
    /\ UNCHANGED thumbOthers

\* thumbnailWG.Wait() returns when the counter is zero
WaitForPendingThumbnailsReturn ==
    /\ thumb.wait = "waiting"
    /\ thumb.wg = 0
    /\ thumb' = [thumb EXCEPT !.wait = "returned",
                  !.pendingAtReturn =
                      Cardinality({k \in 1..thumb.waitedAt : thumb.tasks[k] # "done"})]
    /\ UNCHANGED thumbOthers

----------------------------------------------------------------------------
(* package buckets: FinishUpload, FinishMultipartUpload                    *)

finOthers == <<pc, plainSize, inRemaining, calls, ret, stream, mp, wk, ch, chunk, meta,
               ctxDone, gate, dl, thumb, herr>>

DuplicateKeyError == <<"duplicate key error">>

\* bodies: a FinishUploadResp in JSON, text that is no JSON, the database's message, the
\* same message in other letters, nothing
FinishBodyJSON  == <<"{\"id\":\"", "network-id", "\"}">>
FinishBodyText  == <<"internal error">>
FinishBodyDup   == <<"E11000 ", "duplicate key error", " collection: shards">>
FinishBodyOther == <<"E11000 ", "Duplicate Key Error", " collection: shards">>

FinishBodies == {FinishBodyJSON, FinishBodyText, FinishBodyDup, FinishBodyOther, <<>>}

\* status 0 stands for a transport failure
FinishAnswers ==
    {NoResponse}
    \cup [status : {200, 201, 204, 301, 400, 401, 404, 409, 500, 502, 503},
          body : FinishBodies]

\* variant: the body alone marks the duplicate
IsDuplicateBody(status, body) == contains(body, DuplicateKeyError)

\* resp.StatusCode == 500 && strings.Contains(bodyStr, "duplicate key error")
IsDuplicateShard(status, body) == status = 500 /\ contains(body, DuplicateKeyError)

DuplicateShard(body) ==
    <<"file already exists on server (duplicate shard): ">> \o body

FinishFailed(entry, status, body) ==
    <<IF entry = "FinishUpload" THEN "finish upload failed: status "
      ELSE "finish multipart upload failed: status ">>
        \o Itoa(status) \o <<", ">> \o body

\* json.Unmarshal(bodyBytes, &result)
Unmarshal(body) ==
    IF body = FinishBodyJSON THEN [result |-> "network-id", err |-> NoErr]
    ELSE IF body = <<>> THEN [result |-> "nil", err |-> <<"unexpected end of JSON input">>]
    ELSE [result |-> "nil", err |-> <<"invalid character">>]

\* what either function returns for the answer it got
FinishReturn(entry, resp) ==
    IF resp.status = 0
    THEN [result |-> "nil", err |-> <<"Post: connection refused">>]
    ELSE IF resp.status < 200 \/ resp.status >= 300
    THEN IF IsDuplicateShard(resp.status, resp.body)
         THEN [result |-> "nil", err |-> DuplicateShard(resp.body)]
         ELSE [result |-> "nil", err |-> FinishFailed(entry, resp.status, resp.body)]
    ELSE Unmarshal(resp.body)

FinishCall ==
    /\ fin.pc = "idle"
    /\ \E entry \in {"FinishUpload", "FinishMultipartUpload"} :
          fin' = [fin EXCEPT !.pc = "sent", !.entry = entry]
    /\ UNCHANGED finOthers

FinishAnswer ==
    /\ fin.pc = "sent"
    /\ \E resp \in FinishAnswers :
          LET r == FinishReturn(fin.entry, resp)
          IN  fin' = [fin EXCEPT !.pc = "done", !.resp = resp,
                                 !.result = r.result, !.err = r.err]
    /\ UNCHANGED finOthers

----------------------------------------------------------------------------
(* Specifications                                                          *)

StreamLens(size) ==
    IF size < 0 THEN {0, 1, DefaultMultipartMinSize, maxUnknownSizeBuffer + 1}
    ELSE {size - d : d \in {d \in 0..MaxShort : d <= size}}

AutoSizes == {-1, 0, 1, preReadSize + 1, DefaultMultipartMinSize - 1,
              DefaultMultipartMinSize, DefaultMultipartMinSize + 1}

MultipartSizes ==
    {sz \in {k * DefaultChunkSize + d : k \in 0..MaxChunks, d \in {-1, 0, 1}} : sz >= 0}

----------------------------------------------------------------------------
(* package errors: HTTPError.RetryAfter                                    *)
(* Header values are sequences of characters; durations are milliseconds;  *)
(* the clock counts seconds.                                               *)

MaxDate == 3

herrOthers == <<pc, plainSize, inRemaining, calls, ret, stream, mp, wk, ch, chunk, meta,
                ctxDone, gate, dl, thumb, fin>>

HerrIdle == [pc |-> "idle", retryAfter |-> <<>>, reset |-> <<>>, now |-> 0, result |-> 0]

\* the value of a decimal digit sequence
RECURSIVE DigitsValue(_)
DigitsValue(ds) ==
    IF ds = <<>> THEN 0
    ELSE 10 * DigitsValue(SubSeq(ds, 1, Len(ds) - 1))
            + (CHOOSE d \in 0..9 : DigitChars[d + 1] = ds[Len(ds)])

\* strconv.Atoi: an optional sign and at least one decimal digit, nothing else
Atoi(v) ==
    LET signed == v # <<>> /\ v[1] \in {"+", "-"}
        ds     == IF signed THEN Tail(v) ELSE v
        ok     == ds # <<>> /\ \A i \in 1..Len(ds) : \E d \in 0..9 : DigitChars[d + 1] = ds[i]
    IN  IF ~ok THEN [ok |-> FALSE, n |-> 0]
        ELSE [ok |-> TRUE, n |-> IF signed /\ v[1] = "-" THEN -DigitsValue(ds)
                                 ELSE DigitsValue(ds)]

\* an HTTP-date (http.TimeFormat) of second t of the clock: never a decimal number
HTTPDate(t) == <<"D">> \o Itoa(t)

\* values a server may put in a header; <<>> is what Header.Get gives for none
RetryAfterValues ==
    {<<>>, <<"x">>, <<"3", "x">>, <<"-", "5">>}
        \cup {Itoa(n) : n \in {0, 1, 30}}
        \cup {HTTPDate(t) : t \in 0..MaxDate}

ResetValues ==
    {<<>>, <<"x">>, <<"-", "1">>} \cup {Itoa(n) : n \in {0, 1, 1500}}

\* func (e *HTTPError) RetryAfter() time.Duration
RetryAfter(retryAfter, reset) ==
    IF reset # <<>> /\ Atoi(reset).ok /\ Atoi(reset).n > 0
    THEN Atoi(reset).n
    ELSE 0

\* an HTTPError whose response carries the two headers
NewHTTPError ==
    /\ herr.pc = "idle"
    /\ \E ra \in RetryAfterValues, rs \in ResetValues :
          herr' = [herr EXCEPT !.pc = "made", !.retryAfter = ra, !.reset = rs]
    /\ UNCHANGED herrOthers

\* e.RetryAfter() at some second of the clock
RetryAfterCall ==
    /\ herr.pc = "made"
    /\ \E now \in 0..MaxDate :
          herr' = [herr EXCEPT !.pc = "done", !.now = now,
                               !.result = RetryAfter(herr.retryAfter, herr.reset)]
    /\ UNCHANGED herrOthers

----------------------------------------------------------------------------
(* package folders: CreateFolder, followed by consistency.AwaitFolder      *)

\* what the folders endpoint may answer: a status and a body that is the JSON of a
\* folder or is not JSON
FolderBody(uuid) == [json |-> TRUE, uuid |-> uuid]
InvalidJSON == [json |-> FALSE, uuid |-> ""]

CreateFolderResponses ==
    [status : {200, 201, 401, 500}, body : {FolderBody(u) : u \in UUIDs} \cup {InvalidJSON}]

\* CreateFolder: the status check, then the body is decoded into the folder returned
CreateFolder(resp) ==
    IF resp.status # 200 /\ resp.status # 201
    THEN [uuid |-> "", err |-> "CreateFolder failed"]
    ELSE IF ~resp.body.json
    THEN [uuid |-> "", err |-> "decode"]
    ELSE [uuid |-> resp.body.uuid, err |-> "nil"]

\* one call of CreateFolder, from the request to the return
CreateFolderCall ==
    /\ gate.create.pc = "idle"
    /\ gate.await.pc = "idle"
    /\ \E resp \in CreateFolderResponses :
          LET r == CreateFolder(resp)
          IN  gate' = [gate EXCEPT !.create = [pc |-> "done", at |-> gate.now,
                                                uuid |-> r.uuid, err |-> r.err]]
    /\ UNCHANGED <<gateOthers, ctxDone>>

\* the caller goes on to AwaitFolder with the UUID of the folder it was given
AwaitCreatedFolder ==
    /\ gate.create.pc = "done"
    /\ gate.create.err = "nil"
    /\ AwaitFolderCall(gate.create.uuid)

\* the parts of the state a call of another package does not touch
RestIdle ==
    gate = GateIdle /\ dl = DlIdle /\ thumb = ThumbIdle /\ fin = FinIdle /\ herr = HerrIdle

IdleRest ==
    /\ stream = StreamIdle /\ mp = MpIdle /\ wk = <<>> /\ ch = ChIdle
    /\ chunk = ChunkIdle /\ meta = MetaIdle /\ ctxDone = FALSE
    /\ RestIdle

\* a call of UploadFileStreamAuto or of UploadFileStream
Init ==
    /\ \E entry \in {"UploadFileStreamAuto", "UploadFileStream"} :
          /\ pc = IF entry = "UploadFileStreamAuto" THEN "auto" ELSE "s.preread"
          /\ plainSize \in AutoSizes
          /\ calls = <<Invoke(entry, plainSize)>>
    /\ inRemaining \in StreamLens(plainSize)
    /\ ret = NoRet
    /\ IdleRest

MetaNext == MetaFirst \/ MetaWait \/ MetaSecond \/ MetaReturn

StreamNext ==
    \/ StreamPreRead \/ StreamStart \/ StreamAwaitStart
    \/ StreamTransfer \/ StreamFinish \/ StreamCreateMeta

MultipartNext ==
    \/ MultipartNew \/ MultipartStart \/ EncryptChunk \/ SpawnWorkers
    \/ \E idx \in DOMAIN wk : WorkerAcquire(idx)
    \/ \E idx \in DOMAIN wk : WorkerUpload(idx)
    \/ CloseResults \/ CollectResult \/ CollectEnd
    \/ MultipartFinish \/ MultipartCreateMeta

Next == AutoDispatch \/ AutoReturn \/ StreamNext \/ MultipartNext \/ MetaNext

Spec == Init /\ [][Next]_vars

\* a call of UploadFileStreamMultipart
InitMultipart ==
    /\ pc = "mp.new"
    /\ plainSize \in MultipartSizes
    /\ calls = <<Invoke("UploadFileStreamMultipart", plainSize)>>
    /\ inRemaining \in StreamLens(plainSize)
    /\ ret = NoRet
    /\ IdleRest

NextMultipart == MultipartNext \/ MetaNext

SpecMultipart == InitMultipart /\ [][NextMultipart]_vars

\* the chunk lengths of single chunk calls: a last chunk of one byte, a full chunk
ChunkLens == {1, DefaultChunkSize}

\* a call of uploadChunkWithRetry
InitChunk ==
    /\ pc = "idle" /\ plainSize = 0 /\ inRemaining = 0 /\ calls = <<>> /\ ret = NoRet
    /\ stream = StreamIdle /\ mp = MpIdle /\ wk = <<>> /\ ch = ChIdle
    /\ meta = MetaIdle /\ ctxDone = FALSE
    /\ RestIdle
    /\ \E partIndex \in 0..MaxPartIndex, dataLen \in ChunkLens :
          chunk = [ChunkCall(partIndex) EXCEPT !.dataLen = dataLen]

NextChunk == ChunkTransferStep \/ ChunkSleepStep

SpecChunk == InitChunk /\ [][NextChunk]_vars

\* a call of CreateMetaFile
InitMeta ==
    /\ pc = "idle" /\ plainSize = 0 /\ inRemaining = 0 /\ calls = <<>> /\ ret = NoRet
    /\ stream = StreamIdle /\ mp = MpIdle /\ wk = <<>> /\ ch = ChIdle
    /\ chunk = ChunkIdle /\ ctxDone = FALSE
    /\ RestIdle
    /\ \E fileID \in {"nil", "network-id"}, size \in {0, 1, 1024} :
          meta = CreateMetaFile(fileID, size)

NextMeta == MetaFirst \/ MetaWait \/ MetaSecond \/ CancelCtx

SpecMeta == InitMeta /\ [][NextMeta]_vars

\* one call of uploadChunkWithRetry whose context may be cancelled during a backoff
NextChunkCtx == NextChunk \/ ChunkCancelCtx

SpecChunkCtx == InitChunk /\ [][NextChunkCtx]_vars

\* a call of UploadFileStreamMultipart whose context may be cancelled on the way
NextCancel == NextMultipart \/ UploadCancelCtx

SpecCancel == InitMultipart /\ [][NextCancel]_vars

\* a call of UploadFileStreamAuto up to the uploader it chooses: streams of unknown
\* size of every length around the chunk multiples up to beyond the buffer limit
MaxUnknownChunks == 36

UnknownLens ==
    {n \in {k * DefaultChunkSize + d : k \in 0..MaxUnknownChunks, d \in {-1, 0, 1}} : n >= 0}
        \cup {maxUnknownSizeBuffer + d : d \in {-1, 0, 1, 2}}

InitAutoSize ==
    /\ pc = "auto"
    /\ \/ plainSize = -1 /\ inRemaining \in UnknownLens
       \/ plainSize \in AutoSizes \ {-1} /\ inRemaining \in StreamLens(plainSize)
    /\ calls = <<Invoke("UploadFileStreamAuto", plainSize)>>
    /\ ret = NoRet
    /\ IdleRest

SpecAutoSize == InitAutoSize /\ [][AutoDispatch]_vars

\* a call of UploadFileStreamAuto with a file name and a thumbnail size limit, and
\* the thumbnail goroutine it may start
ThumbLimits == {1, DefaultMultipartMinSize}

AutoThumbSizes == {0, 1, preReadSize + 1, DefaultMultipartMinSize}

InitAutoThumb ==
    /\ pc = "auto"
    /\ plainSize \in AutoThumbSizes
    /\ calls = <<Invoke("UploadFileStreamAuto", plainSize)>>
    /\ inRemaining \in StreamLens(plainSize)
    /\ ret = NoRet
    /\ stream = StreamIdle /\ mp = MpIdle /\ wk = <<>> /\ ch = ChIdle
    /\ chunk = ChunkIdle /\ meta = MetaIdle /\ ctxDone = FALSE
    /\ gate = GateIdle /\ dl = DlIdle /\ fin = FinIdle /\ herr = HerrIdle
    /\ \E supported \in BOOLEAN, limit \in ThumbLimits :
          thumb = [ThumbIdle EXCEPT !.supported = supported, !.limit = limit]

NextAutoThumb == Next \/ \E k \in DOMAIN thumb.tasks : ThumbnailStep(k)

SpecAutoThumb == InitAutoThumb /\ [][NextAutoThumb]_vars

\* a call of UploadFileStreamMultipart with more parts than the semaphore has slots,
\* and with as many, against a server that is up or down
ConcurrentSizes == {DefaultMaxConcurrency * DefaultChunkSize + 1,
                    DefaultMaxConcurrency * DefaultChunkSize}

InitConcurrent ==
    /\ pc = "mp.new"
    /\ plainSize \in ConcurrentSizes
    /\ calls = <<Invoke("UploadFileStreamMultipart", plainSize)>>
    /\ inRemaining = plainSize
    /\ ret = NoRet
    /\ stream = StreamIdle /\ wk = <<>> /\ ch = ChIdle
    /\ chunk = ChunkIdle /\ meta = MetaIdle /\ ctxDone = FALSE
    /\ RestIdle
    /\ \E server \in {"healthy", "down"} : mp = [MpIdle EXCEPT !.server = server]

SpecConcurrent == InitConcurrent /\ [][NextMultipart]_vars

\* calls of UploadFileStreamMultipart that take uploadConcurrently through no part,
\* three parts with any result each, and more parts than slots with results of both
\* kinds
DrainSizes == {0, 2 * DefaultChunkSize + 1, DefaultMaxConcurrency * DefaultChunkSize + 1}

InitDrain ==
    /\ pc = "mp.new"
    /\ plainSize \in DrainSizes
    /\ calls = <<Invoke("UploadFileStreamMultipart", plainSize)>>
    /\ inRemaining = plainSize
    /\ ret = NoRet
    /\ stream = StreamIdle /\ wk = <<>> /\ ch = ChIdle
    /\ chunk = ChunkIdle /\ meta = MetaIdle /\ ctxDone = FALSE
    /\ RestIdle
    /\ mp = [MpIdle EXCEPT !.server = IF plainSize > 2 * DefaultChunkSize + 1
                                      THEN "mixed" ELSE "any"]

SpecDrain == InitDrain /\ [][NextMultipart]_vars

\* calls of UploadFileStreamMultipart with one part and with three, against servers
\* whose answers to each URL are fixed
PutSizes == {DefaultChunkSize, 2 * DefaultChunkSize + 1}

InitPuts ==
    /\ pc = "mp.new"
    /\ plainSize \in PutSizes
    /\ calls = <<Invoke("UploadFileStreamMultipart", plainSize)>>
    /\ inRemaining \in StreamLens(plainSize)
    /\ ret = NoRet
    /\ stream = StreamIdle /\ wk = <<>> /\ ch = ChIdle
    /\ chunk = ChunkIdle /\ meta = MetaIdle /\ ctxDone = FALSE
    /\ RestIdle
    /\ \E server \in {"healthy", "flaky", "mixed", "down"} :
          mp = [MpIdle EXCEPT !.server = server]

SpecPuts == InitPuts /\ [][NextMultipart]_vars

\* calls of TrackFolder and one call of AwaitFolder
InitGate ==
    /\ pc = "idle" /\ plainSize = 0 /\ inRemaining = 0 /\ calls = <<>> /\ ret = NoRet
    /\ stream = StreamIdle /\ mp = MpIdle /\ wk = <<>> /\ ch = ChIdle
    /\ chunk = ChunkIdle /\ meta = MetaIdle /\ ctxDone = FALSE
    /\ RestIdle

NextGate ==
    \/ \E uuid \in UUIDs : TrackFolder(uuid)
    \/ EvictTimer
    \/ \E uuid \in UUIDs : AwaitFolderCall(uuid)
    \/ AwaitFolderSelect
    \/ GateCancelCtx
    \/ Tick

SpecGate == InitGate /\ [][NextGate]_vars

\* one call of CreateFolder, then AwaitFolder for the folder made
InitFolders == InitGate

NextFolders == CreateFolderCall \/ AwaitCreatedFolder \/ GateCancelCtx \/ Tick

SpecFolders == InitFolders /\ [][NextFolders]_vars

\* one HTTPError and one call of RetryAfter
InitRetryAfter == InitGate

NextRetryAfter == NewHTTPError \/ RetryAfterCall

SpecRetryAfter == InitRetryAfter /\ [][NextRetryAfter]_vars

\* the IVs adjustIV is given: those of IVs, one whose last byte is 0xFF, the largest
AdjustIVs == IVs \cup {[k \in 1..BlockSize |-> IF k = BlockSize THEN 255 ELSE 0],
                       [k \in 1..BlockSize |-> 255]}

\* the block counts it is given
AdjustBlocks == {0, 1, 2, 100, 255, 256, 257}

\* adjustIV(iv, a)
AdjustIVFirst ==
    /\ dl.pc = "idle"
    /\ \E iv \in AdjustIVs, a \in AdjustBlocks, b \in AdjustBlocks :
          dl' = [pc |-> "iv.first", iv0 |-> iv, a |-> a, b |-> b,
                 first |-> adjustIV(iv, a), second |-> <<>>, sum |-> <<>>]
    /\ UNCHANGED dlOthers

\* adjustIV of the result, by b
AdjustIVSecond ==
    /\ dl.pc = "iv.first"
    /\ dl' = [dl EXCEPT !.pc = "iv.second", !.second = adjustIV(dl.first, dl.b)]
    /\ UNCHANGED dlOthers

\* adjustIV(iv, a + b) on a fresh copy of the IV
AdjustIVSum ==
    /\ dl.pc = "iv.second"
    /\ dl' = [dl EXCEPT !.pc = "iv.done", !.sum = adjustIV(dl.iv0, dl.a + dl.b)]
    /\ UNCHANGED dlOthers

\* calls of adjustIV
InitAdjustIV == InitGate

NextAdjustIV == AdjustIVFirst \/ AdjustIVSecond \/ AdjustIVSum

SpecAdjustIV == InitAdjustIV /\ [][NextAdjustIV]_vars

\* one call of DownloadFile or of DownloadFileStream
InitDownload == InitGate

NextDownload ==
    \/ DownloadFileStreamCall
    \/ DlRead
    \/ DlClose
    \/ DownloadFileCall
    \/ DlFileCopy
    \/ DlFileFinish

SpecDownload == InitDownload /\ [][NextDownload]_vars

\* calls of UploadFileStreamAuto, their thumbnail goroutines, and one call of
\* WaitForPendingThumbnails
InitThumb == InitGate

NextThumb ==
    \/ AutoUploadReturn
    \/ \E k \in DOMAIN thumb.tasks : ThumbnailStep(k)
    \/ WaitForPendingThumbnailsCall
    \/ WaitForPendingThumbnailsReturn

SpecThumb == InitThumb /\ [][NextThumb]_vars

\* one call of FinishUpload or of FinishMultipartUpload
InitFinish == InitGate

NextFinish == FinishCall \/ FinishAnswer

SpecFinish == InitFinish /\ [][NextFinish]_vars

----------------------------------------------------------------------------
(* Properties of the upload entry points                                   *)

\* where the uploader chosen for this call is logged
UploaderAt == IF Entry = "UploadFileStreamAuto" THEN 2 ELSE 1
Dispatched == Len(calls) >= UploaderAt
\* the protocol calls issued by the uploader
ProtocolOps == SubSeq(Ops, UploaderAt + 1, Len(calls))
IsPrefix(s, t) == Len(s) <= Len(t) /\ SubSeq(t, 1, Len(s)) = s
Succeeded == ret.done /\ ret.err = ""

EmptyAutoUpload ==
    /\ Entry = "UploadFileStreamAuto"
    /\ Len(calls) >= 2
    /\ calls[2].size = 0

\* C1: an upload of an empty file (size 0) through UploadFileStreamAuto makes
\* exactly one createMetaFile call, with size 0 and no fileId, and makes no
\* start, transfer or finish call.
C1_EmptyUploadOnlyCreatesMeta ==
    EmptyAutoUpload =>
        /\ Count("start") = 0
        /\ Count("transfer") = 0
        /\ Count("finish") = 0
        /\ Count("finishMultipart") = 0
        /\ \A k \in 1..Len(calls) :
              calls[k].op = "createMeta" => calls[k].size = 0 /\ calls[k].fileID = "nil"
        /\ pc = "done" => Count("createMeta") = 1
        /\ Succeeded => ret.uuid = meta.uuid

SingleOrder == <<"start", "transfer", "finish", "createMeta">>

\* UploadFileStream was called with a known, non-zero size
SingleKnown ==
    /\ Dispatched
    /\ calls[UploaderAt].op = "UploadFileStream"
    /\ calls[UploaderAt].size > 0

\* C2: a call of UploadFileStream with a known non-zero size issues its protocol
\* calls in the order start, transfer, finish, createMeta, each at most once and
\* each only after the one before it returned successfully; the transfer carries
\* Content-Length plainSize; a successful call has issued all four and returns
\* the createMeta response.
C2_SinglePartOrder ==
    SingleKnown =>
        /\ IsPrefix(ProtocolOps, SingleOrder)
        /\ \A k \in 1..Len(calls) :
              /\ calls[k].op = "transfer" =>
                    /\ calls[k].size = calls[UploaderAt].size
                    /\ stream.uploads >= 1
              /\ calls[k].op = "finish" =>
                    calls[k].hash = ComputeFileHash(Sha256(<<Cipher(0, calls[UploaderAt].size)>>))
              /\ calls[k].op = "createMeta" =>
                    /\ stream.fileID = "network-id"
                    /\ calls[k].fileID = stream.fileID
                    /\ calls[k].size = calls[UploaderAt].size
        /\ Succeeded =>
              /\ ProtocolOps = SingleOrder
              /\ meta.pc = "done" /\ meta.err = NoMetaErr
              /\ ret.uuid = meta.uuid

C2_Witness ==
    /\ Entry = "UploadFileStream"
    /\ calls[1].size = preReadSize + 1
    /\ pc = "done"
    /\ Succeeded
    /\ ProtocolOps = SingleOrder

\* C3: for a known non-zero size UploadFileStreamAuto calls exactly one uploader:
\* UploadFileStream when the size is below DefaultMultipartMinSize (100 MiB),
\* UploadFileStreamMultipart when it is equal or above.
C3_AutoRouting ==
    (Entry = "UploadFileStreamAuto" /\ calls[1].size > 0) =>
        /\ Count("UploadFileStream") + Count("UploadFileStreamMultipart")
              = (IF Dispatched THEN 1 ELSE 0)
        /\ pc # "auto" => Dispatched
        /\ Dispatched =>
              /\ calls[2].size = calls[1].size
              /\ IF calls[1].size < 100 * MiB
                 THEN /\ calls[2].op = "UploadFileStream"
                      /\ Count("finishMultipart") = 0
                 ELSE /\ calls[2].op = "UploadFileStreamMultipart"
                      /\ Count("transfer") = 0
                      /\ Count("finish") = 0

C3_Witness ==
    /\ Entry = "UploadFileStreamAuto"
    /\ calls[1].size = 100 * MiB
    /\ Len(calls) >= 2
    /\ calls[2].op = "UploadFileStreamMultipart"
    /\ pc = "done"
    /\ Succeeded

----------------------------------------------------------------------------
(* Properties of the multipart upload                                      *)

FinishCalls == {k \in 1..Len(calls) : calls[k].op = "finishMultipart"}

\* C4: the parts list handed to FinishMultipartUpload has numParts entries and
\* its entry at 0-based position i has partNumber i + 1, in whatever order the
\* chunk uploads completed.
C4_PartsInIndexOrder ==
    \A k \in FinishCalls :
        /\ Len(calls[k].parts) = mp.numParts
        /\ \A i \in 0..(Len(calls[k].parts) - 1) : calls[k].parts[i + 1].PartNumber = i + 1

C4_Witness ==
    /\ FinishCalls # {}
    /\ mp.numParts >= 2
    /\ ch.reordered
    /\ Succeeded

\* C5: every entry of the parts list handed to FinishMultipartUpload has a
\* non-empty etag; a chunk whose PUT was answered 2xx without an ETag header
\* does not end in a finished upload with an empty etag.
C5_EveryPartHasETag ==
    \A k \in FinishCalls :
        \A i \in 1..Len(calls[k].parts) : calls[k].parts[i].ETag # <<>>

\* C6: the hash handed to FinishMultipartUpload is the hex RIPEMD-160 of the
\* SHA-256 of the encrypted chunks concatenated in index order.
C6_FinishHashIsRipemdOfSha256 ==
    \A k \in FinishCalls :
        calls[k].hash = Hex(Ripemd160(Sha256(mp.encryptedChunks)))

RECURSIVE SumLens(_)
SumLens(chunks) == IF chunks = <<>> THEN 0 ELSE Head(chunks).len + SumLens(Tail(chunks))

\* the reader holds as many bytes as the caller announced
FullInput == SumLens(mp.encryptedChunks) + inRemaining = mp.totalSize

\* C7: with chunkSize = 30 MiB, numParts is the ceiling of totalSize / chunkSize
\* and is 0 exactly when totalSize is 0; of a complete input every chunk but the
\* last has chunkSize bytes, the last has totalSize - (numParts - 1) * chunkSize
\* bytes, which lies in 1..chunkSize, and the chunk sizes add up to totalSize;
\* 60 MiB gives 2 parts and 60 MiB + 1 gives 3.
C7_ChunkPartition ==
    mp.chunkSize > 0 =>
        LET n == mp.numParts
            t == mp.totalSize
            cs == 30 * MiB
        IN  /\ mp.chunkSize = cs
            /\ t = calls[1].size
            /\ n >= 0 /\ n * cs >= t /\ (n > 0 => (n - 1) * cs < t)
            /\ n = 0 <=> t = 0
            /\ t = 60 * MiB => n = 2
            /\ t = 60 * MiB + 1 => n = 3
            /\ Len(mp.encryptedChunks) <= n
            /\ FullInput =>
                  \A k \in 1..Len(mp.encryptedChunks) :
                      LET len == mp.encryptedChunks[k].len
                      IN  /\ k < n => len = cs
                          /\ k = n => len = t - (n - 1) * cs /\ len \in 1..cs
            /\ (FullInput /\ Len(mp.encryptedChunks) = n) =>
                  SumLens(mp.encryptedChunks) = t

C7_Witness ==
    /\ mp.totalSize = 60 * MiB + 1
    /\ mp.numParts = 3
    /\ Len(mp.encryptedChunks) = 3
    /\ mp.encryptedChunks[3].len = 1
    /\ inRemaining = 0
    /\ pc = "mp.collect"

----------------------------------------------------------------------------
(* Properties of uploadChunkWithRetry                                      *)

\* a 500 whose rendered error holds none of the texts isRetryableError looks for
Plain500(resp) == resp.status = 500 /\ resp.body = BodyPlain

C9_ClientErrorNotRetried ==
    \A k \in 1..Len(chunk.served) :
        chunk.served[k].status \in {400, 401, 403, 404} =>
            /\ k = Len(chunk.served)
            /\ chunk.pc = "done"
            /\ chunk.err # NoErr
            /\ chunk.etag = <<>>
            /\ Len(chunk.delays) = k - 1
            /\ k = 1 => chunk.delays = <<>>

C9_Witness ==
    /\ chunk.pc = "done"
    /\ Len(chunk.served) = 1
    /\ chunk.served[1].status = 403
    /\ chunk.delays = <<>>
    /\ chunk.err # NoErr

----------------------------------------------------------------------------
(* Properties of CreateMetaFile                                            *)

\* C10: CreateMetaFile never sends more than 2 requests; when the first answer
\* is a 404 and the context is not cancelled it sends exactly 2, and the call's
\* result is that of the second: success after 404 then 200, failure after 404
\* then 404.
C10_MetaRetriesOnceOn404 ==
    /\ meta.sent <= 2
    /\ (/\ meta.pc = "done"
        /\ ~ctxDone
        /\ Len(meta.served) >= 1
        /\ meta.served[1].status = 404) =>
          /\ meta.sent = 2
          /\ meta.waited
          /\ Len(meta.served) = 2 =>
                /\ (meta.served[2].status = 200 /\ meta.served[2].json) =>
                      meta.err = NoMetaErr /\ meta.uuid # ""
                /\ meta.served[2].status = 404 =>
                      meta.err = [kind |-> "http", status |-> 404] /\ meta.uuid = ""

C10_Witness ==
    /\ meta.pc = "done"
    /\ ~ctxDone
    /\ meta.sent = 2
    /\ Len(meta.served) = 2
    /\ meta.served[1].status = 404
    /\ meta.served[2].status = 200
    /\ meta.err = NoMetaErr

----------------------------------------------------------------------------
(* Properties of the consistency gate                                      *)

\* the instants at which the awaited folder was tracked
AwaitedTracks == gate.tracks[gate.await.uuid]

\* since when the AwaitFolder call could see the cancellation
CancelSeen == IF gate.ctxAt > gate.await.called THEN gate.ctxAt ELSE gate.await.called

C12_ImmediateAndEvicted ==
    /\ (/\ gate.await.pc # "idle"
        /\ \A k \in 1..gate.await.tracked : AwaitedTracks[k] + 5 <= gate.await.called) =>
          /\ gate.await.pc = "done"
          /\ gate.await.err = "nil"
          /\ gate.await.returned = gate.await.called
    /\ \A u \in UUIDs :
          gate.recentFolders[u] # Absent =>
              /\ gate.now - gate.recentFolders[u] <= 5 + MaxLatency
              /\ \E t \in gate.timers : t.uuid = u /\ t.at <= gate.recentFolders[u] + 5

\* a call for a folder whose window has elapsed, after its entry was evicted
C12_Witness ==
    /\ gate.await.pc = "done"
    /\ gate.await.tracked = 1
    /\ AwaitedTracks[1] + 5 <= gate.await.called
    /\ gate.await.err = "nil"
    /\ gate.await.returned = gate.await.called
    /\ gate.recentFolders[gate.await.uuid] = Absent
    /\ gate.timers = {}

----------------------------------------------------------------------------
(* Properties of the downloader                                            *)

BodyHash == ComputeFileHash(Sha256(dl.body))
FileDownloaded == dl.mode = "file" /\ dl.pc = "done" /\ dl.err \notin {"http", "no shards"}
StreamReadToEnd == dl.mode = "stream" /\ dl.pc \in {"eof", "closed"} /\ dl.readErr = "none"

RangeServed ==
    /\ dl.mode = "stream" /\ dl.range.has /\ dl.status = 206
    /\ dl.range.end >= 0 /\ dl.range.end < dl.size
    /\ dl.body = RangeBody(Stored(dl.size, dl.iv0), dl.sent)

\* C15: for bytes=start-end the server is asked for bytes=floor(start/16)*16-end, the
\* IV is the file's IV plus floor(start/16) blocks, start mod 16 decrypted bytes are
\* discarded, and the caller reads exactly the end-start+1 bytes plain[start..end];
\* when start is a multiple of 16 the range is sent as it is and nothing is discarded.
C15_RangeAlignment ==
    (RangeServed /\ dl.pc # "idle") =>
        /\ dl.sent = Range((dl.range.start \div 16) * 16, dl.range.end)
        /\ dl.iv = CounterBlock(dl.iv0, dl.range.start \div 16)
        /\ dl.discarded = dl.range.start % 16
        /\ dl.range.start % 16 = 0 => (dl.sent = dl.range /\ dl.discarded = 0)
        /\ dl.err = "none"
        /\ StreamReadToEnd =>
              /\ Len(dl.out) = dl.range.end - dl.range.start + 1
              /\ dl.out = SubSeq(Plain(dl.size), dl.range.start + 1, dl.range.end + 1)

\* bytes=20-63 of a file whose IV carries over: bytes=16-63 sent, 4 discarded, 44 read
C15_Witness ==
    /\ RangeServed /\ StreamReadToEnd
    /\ dl.range = Range(20, 63) /\ dl.sent = Range(16, 63)
    /\ dl.iv0[BlockSize] = 255 /\ dl.iv # dl.iv0
    /\ dl.discarded = 4 /\ Len(dl.out) = 44

----------------------------------------------------------------------------
(* Properties of cancellation and of the retry decision                    *)

\* a request made with a cancelled context fails with an error that wraps ctx.Err()
CtxFailure(e) == e = CtxErr \/ (e.kind = "transport" /\ ctxDone)

ReturnsCtxErr == ret.err = "failed to create file metadata" /\ CtxFailure(meta.err)

\* C16: an upload whose context was cancelled while it was in progress returns an
\* error that is ctx.Err(), sends no create-meta request after the cancellation, and
\* leaves no goroutine of its own running or blocked.
C16_CancelledUploadReturnsCtxErr ==
    (ctxDone /\ ret.done) =>
        /\ ReturnsCtxErr
        /\ meta.sent = 0
        /\ \A idx \in DOMAIN wk : wk[idx] = "done"

ContextCanceled == <<"context canceled">>

\* C17: once the context is cancelled during the backoff of uploadChunkWithRetry, no
\* further transfer is attempted for the chunk and the call ends with ctx.Err().
C17_BackoffHonorsCtx ==
    ctxDone =>
        /\ chunk.pc # "transfer"
        /\ chunk.pc = "done" => chunk.err = ContextCanceled

LastServed == chunk.served[Len(chunk.served)]
SameStatus(resp) == {r \in PutResponses : r.status = resp.status}
GaveUpEarly == chunk.pc = "done" /\ chunk.err # NoErr /\ Len(chunk.served) < maxRetries

\* C18: whether a failed transfer is retried depends on its status code alone: a 5xx
\* is retried whatever its body says (up to the limit of attempts), and the decision
\* taken for a failure is the one every failure with the same status would get.
C18_RetryDependsOnStatusOnly ==
    /\ GaveUpEarly => ~(LastServed.status \in 500..599)
    /\ GaveUpEarly => \A r \in SameStatus(LastServed) : ~isRetryableError(Transfer(r).err)
    /\ chunk.pc = "sleep" =>
          \A r \in SameStatus(LastServed) : isRetryableError(Transfer(r).err)

----------------------------------------------------------------------------
(* Properties of the background thumbnails                                 *)

\* C19: when WaitForPendingThumbnails returns, no thumbnail upload started by an
\* UploadFileStreamAuto call that came before it is still running; a task counts in
\* the wait group from before its goroutine starts until it has finished.
C19_WaitCoversRunningThumbnails ==
    /\ thumb.wait = "returned" => thumb.pendingAtReturn = 0
    /\ thumb.wg = Pending(thumb)

----------------------------------------------------------------------------
(* Properties of the finish calls                                          *)

FinishAnswered == fin.pc = "done" /\ fin.resp.status # 0
Non2xx == fin.resp.status < 200 \/ fin.resp.status >= 300
IsDuplicateShardErr == fin.err # NoErr /\ Head(fin.err) = "file already exists on server (duplicate shard): "
IsFinishFailedErr ==
    /\ fin.err # NoErr
    /\ Head(fin.err) = (IF fin.entry = "FinishUpload" THEN "finish upload failed: status "
                        ELSE "finish multipart upload failed: status ")
    /\ IsPrefix(Itoa(fin.resp.status), Tail(fin.err))

\* C20: a finish call answered 500 with "duplicate key error" in the body returns the
\* duplicate-shard error; any other answer outside 2xx returns the finish-failed
\* error, which names the status; and no call returns a result and an error together.
C20_FinishErrors ==
    /\ (FinishAnswered /\ Non2xx) =>
          IF fin.resp.status = 500
             /\ \E k \in 1..Len(fin.resp.body) : fin.resp.body[k] = "duplicate key error"
          THEN IsDuplicateShardErr /\ ~IsFinishFailedErr
          ELSE IsFinishFailedErr /\ ~IsDuplicateShardErr
    /\ fin.pc = "done" => (fin.result = "nil" \/ fin.err = NoErr)

\* FinishMultipartUpload answered 500 with the database's message
C20_Witness ==
    /\ FinishAnswered /\ fin.entry = "FinishMultipartUpload"
    /\ fin.resp = [status |-> 500, body |-> FinishBodyDup]
    /\ IsDuplicateShardErr /\ fin.result = "nil"

----------------------------------------------------------------------------
(* Properties of the downloader: files without shards                      *)

\* C21: when the file's info lists no shards, DownloadFile and DownloadFileStream end
\* with the no-shards error, make no shard request, and leave the destination as it
\* was: no file is created.
C21_NoShardsNoRequest ==
    (dl.pc # "idle" /\ dl.shards = 0) =>
        /\ dl.pc = "done" /\ dl.err = "no shards"
        /\ dl.gets = 0 /\ dl.status = 0
        /\ dl.dest = dl.dest0

\* DownloadFile to a path where no file was
C21_Witness ==
    /\ dl.mode = "file" /\ dl.pc = "done" /\ dl.shards = 0
    /\ dl.err = "no shards" /\ dl.gets = 0 /\ ~dl.dest.exists

----------------------------------------------------------------------------
(* Properties of UploadFileStreamAuto: streams of unknown size             *)

\* C22: with size < 0 UploadFileStreamAuto takes at most 1 GiB + 1 bytes from the
\* stream; a stream of more than 1 GiB ends the call with the unknown-size error and
\* no further call is made; any other stream, one of exactly 1 GiB included, goes to
\* an uploader as a known-size upload whose size is the number of bytes buffered.
C22_UnknownSizeBuffered ==
    [][(pc = "auto" /\ plainSize < 0) =>
          IF inRemaining > maxUnknownSizeBuffer
          THEN /\ inRemaining - inRemaining' = maxUnknownSizeBuffer + 1
               /\ ret'.done /\ ret'.err = "unknown-size upload exceeds limit"
               /\ calls' = calls /\ pc' = "done"
          ELSE /\ plainSize' = inRemaining /\ inRemaining' = inRemaining
               /\ ~ret'.done
               /\ Len(calls') = Len(calls) + 1
               /\ calls'[Len(calls')].op \in {"UploadFileStream", "UploadFileStreamMultipart"}
               /\ calls'[Len(calls')].size = inRemaining]_vars

\* a stream of exactly 1 GiB was buffered and handed on
C22_Witness ==
    /\ calls[1].op = "UploadFileStreamAuto" /\ calls[1].size < 0
    /\ pc = "mp.new" /\ ~ret.done
    /\ plainSize = maxUnknownSizeBuffer /\ inRemaining = maxUnknownSizeBuffer

----------------------------------------------------------------------------
(* Properties of HTTPError.RetryAfter                                      *)

IsHTTPDate(v) == Len(v) >= 2 /\ v[1] = "D" /\ Atoi(Tail(v)).ok

\* what honoring the Retry-After header gives, in milliseconds
HonorsRetryAfter(v, now) ==
    IF Atoi(v).ok /\ Atoi(v).n > 0 THEN 1000 * Atoi(v).n
    ELSE IF IsHTTPDate(v) /\ Atoi(Tail(v)).n > now THEN 1000 * (Atoi(Tail(v)).n - now)
    ELSE 0

\* C23: RetryAfter() honors the Retry-After header: N > 0 seconds give N seconds, a
\* date in the future gives the time left until then, and no header, an unparseable
\* value, 0 or a date in the past give 0.
C23_RetryAfterHonorsHeader ==
    herr.pc = "done" => herr.result = HonorsRetryAfter(herr.retryAfter, herr.now)

----------------------------------------------------------------------------
(* Properties of CreateFolder and the consistency gate                     *)

\* the instants at which some folder was recorded in the gate
Tracked(uuid) == {gate.tracks[uuid][k] : k \in 1..Len(gate.tracks[uuid])}

\* C24: a CreateFolder that succeeds has recorded the folder's UUID in the gate when
\* it returns, so that an AwaitFolder for it called right afterwards does not return
\* nil before the window has elapsed; a CreateFolder that fails records nothing.
C24_CreateFolderTracks ==
    LET c == gate.create
        a == gate.await
    IN  /\ (c.pc = "done" /\ c.err = "nil") =>
              /\ c.at \in Tracked(c.uuid)
              /\ (a.pc = "done" /\ a.called = c.at /\ a.err = "nil") =>
                    a.returned >= c.at + window
        /\ (c.pc = "done" /\ c.err # "nil") =>
              \A u \in UUIDs : Tracked(u) = {} /\ gate.recentFolders[u] = Absent

----------------------------------------------------------------------------
(* Properties of UploadFileStreamAuto: the thumbnail goroutine             *)

\* C25: UploadFileStreamAuto starts a thumbnail goroutine only for a supported image
\* format with 0 < size <= MaxThumbnailSourceSize and after the create-meta call of
\* the main file has succeeded; it starts at most one, and none when the upload
\* returned an error.
C25_ThumbnailOnlyAfterSuccess ==
    /\ Len(thumb.tasks) <= 1
    /\ Len(thumb.tasks) = 1 =>
          /\ thumb.supported
          /\ 0 < plainSize /\ plainSize <= thumb.limit
          /\ meta.pc = "done" /\ meta.err = NoMetaErr
          /\ ret.done /\ ret.err = ""
    /\ (ret.done /\ ret.err # "") => thumb.tasks = <<>>

\* the goroutine was started after a multipart upload of an image
C25_Witness ==
    /\ pc = "done" /\ ret.done /\ ret.err = ""
    /\ Len(thumb.tasks) = 1
    /\ calls[2].op = "UploadFileStreamMultipart"

----------------------------------------------------------------------------
(* Properties of uploadConcurrently                                        *)

\* the chunk goroutines that hold a slot: in uploadChunkWithRetry, its sleeps included
InFlight == {idx \in DOMAIN wk : wk[idx] = "running"}

\* C26: while uploadConcurrently runs, never more than maxConcurrency (6) chunk
\* transfers are in flight, their backoff sleeps included, whatever the number of
\* parts, also when there are more parts than slots.
C26_InFlightBounded ==
    /\ Cardinality(InFlight) <= 6
    /\ Cardinality(InFlight) = ch.sem

\* seven parts: six in flight, the seventh waits for a slot
C26_Witness ==
    /\ mp.numParts > mp.maxConcurrency
    /\ Cardinality(InFlight) = mp.maxConcurrency
    /\ \E idx \in DOMAIN wk : wk[idx] = "queued"

\* uploadConcurrently was called and has returned
ConcurrentlyReturned == DOMAIN wk # {} /\ pc # "mp.collect"

\* the positions of the failed results in the order they were received
FailedReceived == {k \in 1..Len(ch.received) : ch.received[k].err # NoErr}

FirstFailed == CHOOSE k \in FailedReceived : \A j \in FailedReceived : k <= j

\* C27: uploadConcurrently returns only when every chunk goroutine has delivered its
\* result and ended: none is running or waiting to start. It returns an error iff
\* some chunk failed, and then the error of the first failed result it received.
C27_ReturnsAfterAllResults ==
    ConcurrentlyReturned =>
        /\ \A idx \in DOMAIN wk : wk[idx] = "done"
        /\ ch.sem = 0 /\ ch.wg = 0 /\ ch.results = <<>>
        /\ {ch.received[k].index : k \in 1..Len(ch.received)} = DOMAIN wk
        /\ Len(ch.received) = mp.numParts
        /\ IF FailedReceived = {}
           THEN ~(ret.done /\ ret.err = "failed to upload chunks")
           ELSE /\ ret.done /\ ret.err = "failed to upload chunks"
                /\ ret.cause = ch.received[FirstFailed].err

\* three chunks: one uploaded, two failed with different errors, the first of which
\* is returned
C27_Witness ==
    /\ ConcurrentlyReturned
    /\ Cardinality(FailedReceived) = 2 /\ mp.numParts = 3
    /\ \E k \in FailedReceived : k # FirstFailed /\ ch.received[k].err # ret.cause
    /\ ret.cause = ch.received[FirstFailed].err

----------------------------------------------------------------------------
(* Properties of encryptAllChunks                                          *)

\* C28: the chunks are read and encrypted in order 0..numParts-1 by the calling
\* goroutine alone, each continuing the one CTR key stream where the chunk before
\* it ended, and no chunk goroutine exists before all chunks are encrypted.
C28_EncryptInOrderBeforeUpload ==
    LET enc == mp.encryptedChunks
    IN  /\ Len(enc) = mp.i
        /\ \A k \in 1..Len(enc) :
              enc[k].off = IF k = 1 THEN 0 ELSE enc[k - 1].off + enc[k - 1].len
        /\ mp.cipherPos = IF enc = <<>> THEN 0 ELSE enc[Len(enc)].off + enc[Len(enc)].len
        /\ pc = "mp.encrypt" => DOMAIN wk = {}
        /\ DOMAIN wk # {} => mp.i = mp.numParts /\ Len(enc) = mp.numParts

\* three chunks encrypted one after the other, then a transfer in flight
C28_Witness ==
    /\ pc = "mp.collect" /\ mp.numParts = 3
    /\ Len(mp.encryptedChunks) = 3
    /\ mp.encryptedChunks[3].off = 2 * DefaultChunkSize
    /\ \E idx \in DOMAIN wk : wk[idx] = "running"

----------------------------------------------------------------------------
(* Properties of executeMultipartUpload: the start response                *)

\* the start call was answered with a response that could be decoded
StartAnswered ==
    /\ pc \notin {"mp.new", "mp.start"}
    /\ ret.err # "failed to start multipart upload"

\* C29: when the start response does not hold exactly one upload entry, or that
\* entry does not hold exactly numParts URLs, executeMultipartUpload fails; nothing
\* has been read from the input and no chunk goroutine or transfer exists.
C29_StartResponseChecked ==
    (StartAnswered /\ (mp.uploads # 1 \/ mp.urls # mp.numParts)) =>
        /\ ret.done
        /\ ret.err = (IF mp.uploads # 1 THEN "expected 1 upload entry"
                      ELSE "expected numParts URLs")
        /\ mp.i = 0 /\ mp.cipherPos = 0 /\ mp.encryptedChunks = <<>>
        /\ DOMAIN wk = {} /\ ch = ChIdle
        /\ Len(calls) = 2

\* one URL more than the three parts
C29_Witness ==
    /\ StartAnswered /\ ret.done
    /\ mp.numParts = 3 /\ mp.uploads = 1 /\ mp.urls = 4
    /\ inRemaining = plainSize /\ DOMAIN wk = {}

----------------------------------------------------------------------------
(* Properties of UploadFileStreamMultipart: a chunk that fails for good    *)

\* some chunk goroutine has ended its retry loop with an error
ChunkFailedForGood ==
    \/ \E k \in 1..Len(ch.results) : ch.results[k].err # NoErr
    \/ FailedReceived # {}

\* C30: once a chunk has failed for good (an error that is not retried, or all
\* attempts used), the upload issues no finish call, no create-meta call and no
\* abort call, and when it returns it returns an error.
C30_FailedChunkEndsUpload ==
    ChunkFailedForGood =>
        /\ \A k \in 1..Len(calls) :
              calls[k].op \notin {"finishMultipart", "finish", "createMeta", "abort"}
        /\ meta = MetaIdle
        /\ mp.fileID = ""
        /\ pc \in {"mp.collect", "done"}
        /\ pc = "done" => ret.done /\ ret.err = "failed to upload chunks"

\* the upload has returned: one chunk was uploaded, another failed
C30_Witness ==
    /\ pc = "done" /\ ret.done /\ ret.err = "failed to upload chunks"
    /\ ChunkFailedForGood
    /\ \E k \in 1..Len(ch.received) : ch.received[k].err = NoErr
    /\ Len(calls) = 2

----------------------------------------------------------------------------
(* Properties of CreateMetaFile: the attempts that are not retried         *)

\* the answer to the first attempt: a transport failure is no answer served
FirstMetaAnswer ==
    IF meta.served = <<>> THEN [status |-> 0, json |-> FALSE] ELSE meta.served[1]

FirstMetaAttemptOver == meta.pc \notin {"idle", "first"}

\* C31: when the first attempt of CreateMetaFile fails with anything but a 404 (a
\* transport error, 401, 403, 500, a 2xx body that cannot be decoded), there is no
\* wait and no second attempt: one request was sent and that attempt's error is
\* what the call returns.
C31_NoRetryUnless404 ==
    (/\ FirstMetaAttemptOver
     /\ doCreateMetaFile(FirstMetaAnswer).err # NoMetaErr
     /\ FirstMetaAnswer.status # 404) =>
        /\ meta.pc = "done"
        /\ ~meta.waited
        /\ meta.sent <= 1 /\ Len(meta.served) <= 1
        /\ ~ctxDone => meta.sent = 1
        /\ meta.err = doCreateMetaFile(FirstMetaAnswer).err
        /\ meta.uuid = ""

\* one request, answered 500, and the call is over with that error
C31_Witness ==
    /\ meta.pc = "done" /\ ~ctxDone
    /\ meta.sent = 1 /\ meta.served = <<[status |-> 500, json |-> FALSE]>>
    /\ meta.err = [kind |-> "http", status |-> 500]

\* C32: a cancellation that comes while CreateMetaFile waits after a 404 ends the
\* call with ctx.Err() and no second request; a second attempt begins only when the
\* timer has ended the wait, 500 ms or more after the wait began.
C32_WaitHonorsCtx ==
    /\ (meta.cancelledIn = "wait" /\ meta.pc # "wait") =>
          /\ meta.pc = "done"
          /\ meta.err = CtxErr
          /\ meta.sent = 1 /\ Len(meta.served) = 1
          /\ ~meta.waited
    /\ (meta.pc = "second" \/ Len(meta.served) = 2 \/ meta.sent = 2) =>
          /\ meta.waited
          /\ meta.waitedFor >= 5
          /\ meta.served[1].status = 404

\* cancelled during the wait: over with ctx.Err() after the one request
C32_Witness ==
    /\ meta.cancelledIn = "wait" /\ meta.pc = "done"
    /\ meta.err = CtxErr /\ meta.sent = 1
    /\ meta.served = <<[status |-> 404, json |-> FALSE]>>

----------------------------------------------------------------------------
(* Properties of uploadChunkWithRetry: the attempts                        *)

AttemptErr(j) == Transfer(chunk.served[j]).err

\* the attempts made so far all failed with errors the loop retries
AllRetryable == \A j \in 1..Len(chunk.served) : isRetryableError(AttemptErr(j))

\* C33: uploadChunkWithRetry makes at most 3 attempts. An attempt answered 2xx after
\* k = 0, 1 or 2 retryable failures is the last one and its ETag is returned; after
\* fewer than 3 retryable failures the loop goes on; after 3 the call returns an
\* error. Every attempt sends the whole chunk, from its first byte.
C33_AtMostThreeAttempts ==
    LET n == Len(chunk.served)
    IN  /\ n <= 3
        /\ Len(chunk.puts) = n
        /\ \A j \in 1..n : chunk.puts[j] = [off |-> 0, len |-> chunk.dataLen]
        /\ \A j \in 1..n :
              AttemptErr(j) = NoErr =>
                  /\ j = n /\ chunk.pc = "done"
                  /\ chunk.err = NoErr
                  /\ chunk.etag = Transfer(chunk.served[j]).etag
        /\ (AllRetryable /\ n < 3) => chunk.pc \in {"transfer", "sleep"}
        /\ (AllRetryable /\ n = 3) => chunk.pc = "done" /\ chunk.err # NoErr

\* two answers 500, then a 200: the third attempt's ETag, three whole chunks sent
C33_Witness ==
    /\ chunk.pc = "done" /\ chunk.err = NoErr
    /\ Len(chunk.served) = 3
    /\ chunk.served[1].status = 500 /\ chunk.served[2].status = 500
    /\ chunk.served[3].status = 200
    /\ chunk.etag = <<"etag">>
    /\ chunk.dataLen = DefaultChunkSize
    /\ chunk.puts = [j \in 1..3 |-> [off |-> 0, len |-> DefaultChunkSize]]

----------------------------------------------------------------------------
(* Properties of UploadFileStream: the start call and the pre-read         *)

\* UploadFileStream was called with the size of its input
KnownSizeStream ==
    \E k \in 1..Len(calls) : calls[k].op = "UploadFileStream" /\ calls[k].size >= 0

PreReadOver == pc \in {"s.start", "s.await", "s.transfer", "s.finish", "s.meta"}

\* the start request has been sent and its result has not been received
StartInFlight == Count("start") > 0 /\ pc = "s.await"

\* the state the pipelining needs: the pre-read going on with the start call in flight
StartInFlightDuringPreRead == pc = "s.preread" /\ Count("start") > 0

\* C34: in UploadFileStream with a known size the pre-read of min(plainSize, 5 MiB)
\* bytes takes place while the start call is in flight: when the pre-read is over
\* the start request has been sent.
C34_PreReadWhileStartInFlight ==
    (KnownSizeStream /\ PreReadOver) => Count("start") > 0

----------------------------------------------------------------------------
(* Properties of adjustIV                                                  *)

Adjusted == dl.pc \in {"iv.first", "iv.second", "iv.done"}

\* iv plus n as a big-endian integer modulo 2^128, for n below 2^24: the sum of the
\* low three bytes and n as a number, and its overflow added to the thirteen bytes
\* above them
BigEndianAdd(iv, n) ==
    LET total == (iv[BlockSize - 2] * 65536) + (iv[BlockSize - 1] * 256)
                   + iv[BlockSize] + n
        low == [k \in 1..BlockSize |->
                  IF k = BlockSize THEN total % 256
                  ELSE IF k = BlockSize - 1 THEN (total \div 256) % 256
                  ELSE IF k = BlockSize - 2 THEN (total \div 65536) % 256
                  ELSE iv[k]]
    IN  IF total \div 16777216 = 0 THEN low ELSE IncrementIV(low, BlockSize - 3)

\* C35: adjustIV(iv, n) is iv plus n as a big-endian integer of 16 bytes, modulo
\* 2^128 (n increments of the counter): adjusting by 0 changes nothing, adding 1 to
\* an IV that ends in 0xFF zeroes that byte and increments the one before it, and
\* adjusting by a and then by b gives what adjusting by a + b gives.
C35_AdjustIVAddsWithCarry ==
    /\ Adjusted =>
          /\ dl.first = BigEndianAdd(dl.iv0, dl.a)
          /\ dl.a = 0 => dl.first = dl.iv0
          /\ (dl.a = 1 /\ dl.iv0[BlockSize] = 255) =>
                /\ dl.first[BlockSize] = 0
                /\ dl.first[BlockSize - 1] = (dl.iv0[BlockSize - 1] + 1) % 256
    /\ dl.pc = "iv.done" => dl.second = dl.sum

\* the largest IV plus 1 is the zero IV, and 1 then 256 is 257
C35_Witness ==
    /\ dl.pc = "iv.done"
    /\ dl.iv0 = [k \in 1..BlockSize |-> 255]
    /\ dl.a = 1 /\ dl.b = 256
    /\ dl.first = [k \in 1..BlockSize |-> 0]
    /\ dl.second = dl.sum /\ dl.sum[BlockSize - 1] = 1

----------------------------------------------------------------------------
(* Properties of UploadFileStream: failures of the protocol calls          *)

\* the protocol calls that come after call op
LaterSteps(op) ==
    IF op = "start" THEN {"transfer", "finish", "createMeta"}
    ELSE IF op = "transfer" THEN {"finish", "createMeta"}
    ELSE {"createMeta"}

\* the errors UploadFileStream returns for a failure of call op
StepErrors(op) ==
    IF op = "start" THEN {"failed to start upload", "startResp.Uploads is empty"}
    ELSE IF op = "transfer" THEN {"failed to transfer file data"}
    ELSE {"failed to finish upload"}

\* C36: in UploadFileStream a failure of start (an error or no uploads), of transfer
\* or of finish is not retried: the failing call was made exactly once, no later
\* step of the protocol is issued, and an error is returned to the caller.
C36_FailureNotRetried ==
    stream.failed # "" =>
        /\ Count(stream.failed) = 1
        /\ \A op \in LaterSteps(stream.failed) : Count(op) = 0
        /\ ret.done /\ ret.err \in StepErrors(stream.failed)
        /\ pc \in {"auto.ret", "done"}

\* a transfer that failed: one start, one transfer, nothing after, the error returned
C36_Witness ==
    /\ stream.failed = "transfer" /\ pc = "done"
    /\ Count("start") = 1 /\ Count("transfer") = 1
    /\ Count("finish") = 0 /\ Count("createMeta") = 0
    /\ ret.err = "failed to transfer file data"

----------------------------------------------------------------------------
(* Properties of uploadConcurrently: termination                           *)

\* the results goroutine idx has sent, received already or still in the channel
Sent(idx) ==
    Cardinality({k \in 1..Len(ch.received) : ch.received[k].index = idx})
      + Cardinality({k \in 1..Len(ch.results) : ch.results[k].index = idx})

\* a step of uploadConcurrently, of the closing goroutine, or of a chunk goroutine
\* that waits for a slot
DrainStep ==
    \/ \E idx \in DOMAIN wk : WorkerAcquire(idx)
    \/ CloseResults \/ CollectResult \/ CollectEnd

\* some step can be taken: one of DrainStep, or a goroutine that holds a slot ends
\* its uploadChunkWithRetry and sends its result
CanStep == ENABLED DrainStep \/ (InFlight # {} /\ CanSend)

\* what is left to do: slots to take, results to send, the close, results to receive
DrainMeasure ==
    (3 * Cardinality({idx \in DOMAIN wk : wk[idx] = "queued"}))
      + (2 * Cardinality(InFlight)) + Len(ch.results) + (IF ch.closed THEN 0 ELSE 1)

\* uploadConcurrently has returned
Drained == ch.closed /\ pc # "mp.collect"

DrainInvariant ==
    /\ \A idx \in DOMAIN wk : Sent(idx) = (IF wk[idx] = "done" THEN 1 ELSE 0)
    /\ ch.sem = Cardinality(InFlight) /\ ch.sem <= mp.maxConcurrency
    /\ InFlight # {} => CanSend
    /\ ch.closed => \A idx \in DOMAIN wk : wk[idx] = "done"
    /\ pc = "mp.collect" => CanStep
    /\ Drained => /\ ch.resultsCollected = mp.numParts
                  /\ Len(ch.received) = mp.numParts
                  /\ ch.results = <<>> /\ ch.sem = 0

\* C37: uploadConcurrently always terminates without deadlock, for no part, for fewer
\* parts than slots and for more, and for every mix of results: each goroutine takes
\* one slot, sends one result and gives the slot back; the channel always has room
\* for a result sent; it is closed once, after the last send; the collector receives
\* numParts results; while the function runs some step can be taken, and every step
\* brings the end nearer.
C37_ConcurrentlyTerminates ==
    /\ []DrainInvariant
    /\ [][/\ ch.closed => ch'.closed
          /\ (pc = "mp.collect" /\ pc' = "mp.collect") => DrainMeasure' < DrainMeasure]_vars

\* seven parts, four uploaded and three failed, all received, the function returned
C37_Witness ==
    /\ Drained /\ mp.numParts > mp.maxConcurrency
    /\ ch.resultsCollected = mp.numParts
    /\ Cardinality(FailedReceived) = 3

\* no part: the channel is closed at once and the collector receives nothing
C37_WitnessNoParts ==
    /\ Drained /\ mp.numParts = 0 /\ ch.resultsCollected = 0 /\ pc = "mp.finish"

----------------------------------------------------------------------------
(* Properties of the consistency gate: a folder tracked again              *)

\* uuid was tracked again while its earlier entry was inside the window
Retracked(uuid) ==
    /\ Len(gate.tracks[uuid]) >= 2
    /\ gate.tracks[uuid][2] - gate.tracks[uuid][1] < window

\* the instant of the latest of the first n TrackFolder calls for uuid
LatestTrack(uuid, n) == gate.tracks[uuid][n]

\* C38: when TrackFolder(u) is called again while an earlier entry for u is inside
\* its window, the window restarts from the latest call: the entry is not evicted
\* before the latest TrackFolder instant plus the window, and an AwaitFolder(u)
\* called before that instant does not return nil earlier than it.
C38_RetrackRestartsWindow ==
    /\ \A uuid \in UUIDs :
          (Retracked(uuid) /\ gate.now < LatestTrack(uuid, Len(gate.tracks[uuid])) + window)
              => gate.recentFolders[uuid] # Absent
    /\ LET a == gate.await
       IN  (/\ a.pc = "done" /\ a.err = "nil"
            /\ a.tracked >= 2 /\ Retracked(a.uuid)
            /\ a.called < LatestTrack(a.uuid, a.tracked) + window)
               => a.returned >= LatestTrack(a.uuid, a.tracked) + window

----------------------------------------------------------------------------
(* Properties of encryptAllChunks: an input that ends early                *)

\* some chunk has been through uploadChunkWithRetry
ChunkTransferred == \E idx \in DOMAIN wk : wk[idx] = "done"

\* C39: a multipart upload succeeds only if exactly totalSize plaintext bytes were
\* read from the input: when the input ends before totalSize bytes, in whichever
\* chunk, no chunk is transferred and the upload fails, so the lengths of the chunks
\* transferred always sum to the totalSize declared to start-upload.
C39_ExactlyTotalSizeRead ==
    /\ ChunkTransferred => mp.cipherPos = mp.totalSize
    /\ (ret.done /\ ret.err = "") => mp.cipherPos = mp.totalSize

----------------------------------------------------------------------------
(* Properties of the chunk transfers of a multipart upload                 *)

\* the PUT requests to urls[i] that were answered 2xx
Acked(i) == {p \in ch.puts : p.url = i /\ p.status \in 200..299}

\* uploadConcurrently has returned its parts
PartsReturned == Drained /\ ch.firstError = NoErr

\* C40: in a multipart upload every PUT to urls[i] carries chunk i, whole, with the
\* chunk's length as Content-Length, on every attempt, and chunk i goes to no other
\* URL; when the upload succeeds every index 0..numParts-1 has exactly one PUT that
\* was answered 2xx, and parts[i] holds part number i+1 and the ETag of that answer.
C40_ChunkToItsURL ==
    /\ \A p \in ch.puts :
          /\ p.url \in 0..(mp.numParts - 1)
          /\ p.body = mp.encryptedChunks[p.url + 1]
          /\ p.contentLength = mp.encryptedChunks[p.url + 1].len
    /\ PartsReturned =>
          \A i \in 0..(mp.numParts - 1) :
              /\ Cardinality(Acked(i)) = 1
              /\ \A p \in Acked(i) :
                    ch.parts[i + 1] = [PartNumber |-> i + 1, ETag |-> p.etag]

\* three parts, each refused once and accepted at the second attempt
C40_Witness ==
    /\ PartsReturned /\ mp.numParts = 3 /\ mp.server = "flaky"
    /\ Cardinality(ch.puts) = 6
    /\ \A i \in 0..2 : \E p \in Acked(i) : p.attempt = 2 /\ p.etag = <<"etag">>

====
